---- MODULE Spec2Model ----
(***************************************************************************)
(* A model of the fish_n_chips CHIP-8 emulator: the Cpu (registers, call   *)
(* stack, timers, key-wait latch), the Memory bank with its Display, the   *)
(* Keyboard vector and the driver loop of main.rs that loads a ROM and     *)
(* then invokes keyboard.read, cpu.do_cycle and cpu.update_timers.         *)
(***************************************************************************)
EXTENDS Integers, Sequences, FiniteSets, TLC

\* ------------------------------------------------------------------------
\* Program constants
\* ------------------------------------------------------------------------

RAM_SIZE == 4096

DISPLAY_HEIGHT == 32

DISPLAY_WIDTH == 64

STACK_SIZE == 16

PROGRAM_START_ADDRESS == 512

OPCODE_SIZE == 2

\* ------------------------------------------------------------------------
\* Bounds of the model
\* ------------------------------------------------------------------------

\* The driver loop is followed for at most this many cpu.do_cycle calls.
MaxCycles == 18

\* The same, for the image that adds to I until it passes 65535.
MaxIndexCycles == 246

\* ------------------------------------------------------------------------
\* Fixed-width integer helpers (u8 / u16 arithmetic of the source)
\* ------------------------------------------------------------------------

U8(n) == n % 256

U16(n) == n % 65536

RECURSIVE BitAnd(_, _)
BitAnd(a, b) ==
    IF a = 0 \/ b = 0 THEN 0
    ELSE (a % 2) * (b % 2) + 2 * BitAnd(a \div 2, b \div 2)

RECURSIVE BitOr(_, _)
BitOr(a, b) ==
    IF a = 0 THEN b
    ELSE IF b = 0 THEN a
    ELSE ((a % 2) + (b % 2) - (a % 2) * (b % 2)) + 2 * BitOr(a \div 2, b \div 2)

RECURSIVE BitXor(_, _)
BitXor(a, b) ==
    IF a = 0 THEN b
    ELSE IF b = 0 THEN a
    ELSE (((a % 2) + (b % 2)) % 2) + 2 * BitXor(a \div 2, b \div 2)

RECURSIVE Pow2(_)
Pow2(k) == IF k = 0 THEN 1 ELSE 2 * Pow2(k - 1)

\* a >> k on an unsigned value
Shr(a, k) == a \div Pow2(k)

\* ------------------------------------------------------------------------
\* memory.rs
\* ------------------------------------------------------------------------

SPRITES ==
    << 240, 144, 144, 144, 240,
       32, 96, 32, 32, 112,
       240, 16, 240, 128, 240,
       240, 16, 240, 16, 240,
       144, 144, 240, 16, 16,
       240, 128, 240, 16, 240,
       240, 128, 240, 144, 240,
       240, 16, 32, 64, 64,
       240, 144, 240, 144, 240,
       240, 144, 240, 16, 240,
       240, 144, 240, 144, 144,
       224, 144, 224, 144, 224,
       240, 128, 128, 128, 240,
       224, 144, 144, 144, 224,
       240, 128, 240, 128, 240,
       240, 128, 240, 128, 128 >>

\* Display::index / index_mut: the cell of (x, y) in the row-major array
index(x, y) == y * DISPLAY_WIDTH + x

get_sizes == << DISPLAY_WIDTH, DISPLAY_HEIGHT >>

Display_new == [c \in 0 .. (DISPLAY_WIDTH * DISPLAY_HEIGHT - 1) |-> 0]

clear(display) == [c \in 0 .. (DISPLAY_WIDTH * DISPLAY_HEIGHT - 1) |-> 0]

Memory_new ==
    [ memory  |-> [a \in 0 .. (RAM_SIZE - 1) |->
                      IF a < Len(SPRITES) THEN SPRITES[a + 1] ELSE 0],
      display |-> Display_new ]

\* Memory::load with the size test off by one (>=)
load_off_by_one(mem, file) ==
    IF ~file.readable
    THEN [result |-> "Err", memory |-> mem]
    ELSE LET len_memory == RAM_SIZE
             len_buffer == Len(file.bytes)
         IN  IF len_buffer >= len_memory - 512
             THEN [result |-> "Err", memory |-> mem]
             ELSE [result |-> "Ok",
                   memory |-> [mem EXCEPT !.memory =
                       [a \in 0 .. (RAM_SIZE - 1) |->
                           IF a >= 512 /\ a < len_buffer + 512
                           THEN file.bytes[a - 512 + 1]
                           ELSE mem.memory[a]]]]

\* Memory::load.  file is the ROM file of the command line: file.readable is
\* whether File::open and read_to_end succeed, file.bytes is its content.
load(mem, file) ==
    IF ~file.readable
    THEN [result |-> "Err", memory |-> mem]
    ELSE LET len_memory == RAM_SIZE
             len_buffer == Len(file.bytes)
         IN  IF len_buffer > len_memory - 512
             THEN [result |-> "Err", memory |-> mem]
             ELSE [result |-> "Ok",
                   memory |-> [mem EXCEPT !.memory =
                       [a \in 0 .. (RAM_SIZE - 1) |->
                           IF a >= 512 /\ a < len_buffer + 512
                           THEN file.bytes[a - 512 + 1]
                           ELSE mem.memory[a]]]]

\* ------------------------------------------------------------------------
\* keyboard.rs
\* ------------------------------------------------------------------------

Keyboard_new == [k \in 0 .. 15 |-> 0]

\* the host keys Keyboard::read maps to a CHIP-8 key index
Keycodes ==
    { "Num1", "Num2", "Num3", "Num4", "A", "Z", "E", "R",
      "Q", "S", "D", "F", "W", "X", "C", "V" }

\* the match of Keyboard::read: -1 stands for None
KeyIndex(key) ==
    CASE key = "Num1" -> 1  [] key = "Num2" -> 2  [] key = "Num3" -> 3
      [] key = "Num4" -> 12 [] key = "A" -> 4     [] key = "Z" -> 5
      [] key = "E" -> 6     [] key = "R" -> 13    [] key = "Q" -> 7
      [] key = "S" -> 8     [] key = "D" -> 9     [] key = "F" -> 14
      [] key = "W" -> 10    [] key = "X" -> 0     [] key = "C" -> 11
      [] key = "V" -> 15    [] OTHER -> -1

\* Keyboard::read with the set of host keys that are down
read(keys) ==
    [k \in 0 .. 15 |-> IF \E key \in keys : KeyIndex(key) = k THEN 1 ELSE 0]

\* ------------------------------------------------------------------------
\* cpu.rs: Stack
\* ------------------------------------------------------------------------

Stack_new == [stack |-> [s \in 0 .. (STACK_SIZE - 1) |-> 0], stack_pointer |-> 0]

\* Stack::push with the capacity test off by one (>)
push_off_by_one(s, address) ==
    IF s.stack_pointer > STACK_SIZE
    THEN [stack |-> s, panic |-> "stack overflow"]
    ELSE [stack |-> [stack |-> [s.stack EXCEPT ![s.stack_pointer] = address],
                     stack_pointer |-> s.stack_pointer + 1],
          panic |-> "none"]

\* Stack::push: panics when the stack is full
push(s, address) ==
    IF s.stack_pointer >= STACK_SIZE
    THEN [stack |-> s, panic |-> "stack overflow"]
    ELSE [stack |-> [stack |-> [s.stack EXCEPT ![s.stack_pointer] = address],
                     stack_pointer |-> s.stack_pointer + 1],
          panic |-> "none"]

top(s) == s.stack[s.stack_pointer]

\* Stack::pop zeroing the slot it releases
pop_clears_slot(s) ==
    IF s.stack_pointer = 0
    THEN [stack |-> s, address |-> 0, panic |-> "stack underflow"]
    ELSE LET s1 == [s EXCEPT !.stack_pointer = s.stack_pointer - 1]
         IN  [stack |-> [s1 EXCEPT !.stack[s1.stack_pointer] = 0],
              address |-> top(s1), panic |-> "none"]

\* Stack::pop: panics when the stack is empty
pop(s) ==
    IF s.stack_pointer = 0
    THEN [stack |-> s, address |-> 0, panic |-> "stack underflow"]
    ELSE LET s1 == [s EXCEPT !.stack_pointer = s.stack_pointer - 1]
         IN  [stack |-> s1, address |-> top(s1), panic |-> "none"]

\* ------------------------------------------------------------------------
\* cpu.rs: ProgramCounter
\* ------------------------------------------------------------------------

NEXT == [tag |-> "NEXT", address |-> 0]

SKIP == [tag |-> "SKIP", address |-> 0]

JUMP(address) == [tag |-> "JUMP", address |-> address]

skip_if(condition) == IF condition THEN SKIP ELSE NEXT

\* ------------------------------------------------------------------------
\* cpu.rs: Cpu
\* ------------------------------------------------------------------------

\* Cpu::new with the program counter at 0
Cpu_new_pc_zero ==
    [ v_registers          |-> [r \in 0 .. 15 |-> 0],
      i_register           |-> 0,
      delay_timer_register |-> 0,
      sound_timer_register |-> 0,
      pc                   |-> 0,
      stack                |-> Stack_new,
      opcode               |-> 0,
      waiting_for_input    |-> FALSE,
      input_register       |-> 0,
      beeping              |-> FALSE ]

Cpu_new ==
    [ v_registers          |-> [r \in 0 .. 15 |-> 0],
      i_register           |-> 0,
      delay_timer_register |-> 0,
      sound_timer_register |-> 0,
      pc                   |-> PROGRAM_START_ADDRESS,
      stack                |-> Stack_new,
      opcode               |-> 0,
      waiting_for_input    |-> FALSE,
      input_register       |-> 0,
      beeping              |-> FALSE ]

\* The outcome of an opcode handler: the Cpu and Memory it leaves, the
\* ProgramCounter it returns, and the panic that aborted it, if any.
Done(c, m, nxt) == [cpu |-> c, memory |-> m, next |-> nxt, panic |-> "none"]

Abort(c, m, why) == [cpu |-> c, memory |-> m, next |-> NEXT, panic |-> why]

InRam(a) == a >= 0 /\ a < RAM_SIZE

\* ------------------------------------------------------------------------
\* cpu.rs: the opcode handlers.  c is the Cpu, m the Memory, both before
\* the instruction.
\* ------------------------------------------------------------------------

SetV(c, r, val) == [c EXCEPT !.v_registers[r] = val]

op_00e0(c, m) == Done(c, [m EXCEPT !.display = clear(m.display)], NEXT)

op_00ee(c, m) ==
    LET p == pop(c.stack)
    IN  IF p.panic # "none" THEN Abort(c, m, p.panic)
        ELSE Done([c EXCEPT !.stack = p.stack], m, JUMP(p.address))

op_1nnn(c, m, nnn) == Done(c, m, JUMP(nnn))

\* op_2nnn pushing the address of the call itself
op_2nnn_pushes_pc(c, m, nnn) ==
    LET p == push(c.stack, U16(c.pc))
    IN  IF p.panic # "none" THEN Abort(c, m, p.panic)
        ELSE Done([c EXCEPT !.stack = p.stack], m, JUMP(nnn))

op_2nnn(c, m, nnn) ==
    LET p == push(c.stack, U16(c.pc + OPCODE_SIZE))
    IN  IF p.panic # "none" THEN Abort(c, m, p.panic)
        ELSE Done([c EXCEPT !.stack = p.stack], m, JUMP(nnn))

op_3xkk(c, m, x, kk) == Done(c, m, skip_if(c.v_registers[x] = kk))

op_4xkk(c, m, x, kk) == Done(c, m, skip_if(c.v_registers[x] # kk))

op_5xy0(c, m, x, y) == Done(c, m, skip_if(c.v_registers[x] = c.v_registers[y]))

op_6xkk(c, m, x, kk) == Done(SetV(c, x, kk), m, NEXT)

\* op_7xkk writing the carry of the addition to VF, as op_8xy4 does
op_7xkk_sets_carry(c, m, x, kk) ==
    LET sum == c.v_registers[x] + kk
        c1  == SetV(c, 15, IF sum > 255 THEN 1 ELSE 0)
    IN  Done(SetV(c1, x, U8(sum)), m, NEXT)

op_7xkk(c, m, x, kk) == Done(SetV(c, x, U8(c.v_registers[x] + kk)), m, NEXT)

op_8xy0(c, m, x, y) == Done(SetV(c, x, c.v_registers[y]), m, NEXT)

op_8xy1(c, m, x, y) ==
    Done(SetV(c, x, BitOr(c.v_registers[x], c.v_registers[y])), m, NEXT)

op_8xy2(c, m, x, y) ==
    Done(SetV(c, x, BitAnd(c.v_registers[x], c.v_registers[y])), m, NEXT)

op_8xy3(c, m, x, y) ==
    Done(SetV(c, x, BitXor(c.v_registers[x], c.v_registers[y])), m, NEXT)

\* op_8xy4 with the carry test off by one (sum >= 255)
op_8xy4_carry_off_by_one(c, m, x, y) ==
    LET vx  == c.v_registers[x]
        vy  == c.v_registers[y]
        sum == vx + vy
        c1  == SetV(c, 15, IF sum >= 255 THEN 1 ELSE 0)
    IN  Done(SetV(c1, x, U8(sum)), m, NEXT)

\* vx and vy are read first, then VF is written, then Vx
op_8xy4(c, m, x, y) ==
    LET vx  == c.v_registers[x]
        vy  == c.v_registers[y]
        sum == vx + vy
        c1  == SetV(c, 15, IF sum > 255 THEN 1 ELSE 0)
    IN  Done(SetV(c1, x, U8(sum)), m, NEXT)

\* VF is written first; the subtraction then reads the registers again
op_8xy5(c, m, x, y) ==
    LET c1 == SetV(c, 15, IF c.v_registers[x] > c.v_registers[y] THEN 1 ELSE 0)
    IN  Done(SetV(c1, x, U8(c1.v_registers[x] - c1.v_registers[y])), m, NEXT)

\* op_8xy6 shifting Vy into Vx
op_8xy6_shifts_vy(c, m, x, y) ==
    LET c1 == SetV(c, 15, BitAnd(c.v_registers[y], 1))
    IN  Done(SetV(c1, x, Shr(c.v_registers[y], 1)), m, NEXT)

op_8xy6(c, m, x, y) ==
    LET c1 == SetV(c, 15, BitAnd(c.v_registers[x], 1))
    IN  Done(SetV(c1, x, Shr(c1.v_registers[x], 1)), m, NEXT)

\* VF is written first; the subtraction then reads the registers again
op_8xy7(c, m, x, y) ==
    LET c1 == SetV(c, 15, IF c.v_registers[x] > c.v_registers[y] THEN 1 ELSE 0)
    IN  Done(SetV(c1, x, U8(c1.v_registers[y] - c1.v_registers[x])), m, NEXT)

op_8xye(c, m, x, y) ==
    LET c1 == SetV(c, 15, Shr(BitAnd(c.v_registers[x], 128), 7))
    IN  Done(SetV(c1, x, U8(c1.v_registers[x] * 2)), m, NEXT)

\* op_9xy0 with the test of op_5xy0 (==)
op_9xy0_tests_equal(c, m, x, y) ==
    Done(c, m, skip_if(c.v_registers[x] = c.v_registers[y]))

op_9xy0(c, m, x, y) == Done(c, m, skip_if(c.v_registers[x] # c.v_registers[y]))

op_annn(c, m, nnn) == Done([c EXCEPT !.i_register = nnn], m, NEXT)

op_bnnn(c, m, nnn) == Done(c, m, JUMP(nnn + c.v_registers[0]))

\* random is the value rng.gen_range(0, 255) returned
op_cxkk(c, m, x, kk, random) == Done(SetV(c, x, BitAnd(random, kk)), m, NEXT)

\* the values rng.gen_range(0, 255) can return: the upper bound is excluded
gen_range == 0 .. 254

\* the inner loop of op_dxyn plotting with OR instead of XOR
RECURSIVE dxyn_bits_or_plot(_, _, _, _, _, _)
dxyn_bits_or_plot(c, m, x, row, byte, bit) ==
    IF bit >= 8 THEN Done(c, m, NEXT)
    ELSE LET col  == U8(c.v_registers[x] + bit) % get_sizes[1]
             addr == c.i_register + byte
         IN  IF ~InRam(addr) THEN Abort(c, m, "index out of bounds")
             ELSE LET pixel == BitAnd(Shr(m.memory[addr], 7 - bit), 1)
                      cell  == index(col, row)
                      c1    == SetV(c, 15, BitOr(c.v_registers[15],
                                                 BitAnd(pixel, m.display[cell])))
                      m1    == [m EXCEPT !.display[cell] = BitOr(m.display[cell], pixel)]
                  IN  dxyn_bits_or_plot(c1, m1, x, row, byte, bit + 1)

\* the inner loop of op_dxyn adding the pixel to the cell (+= instead of ^=)
RECURSIVE dxyn_bits_add_plot(_, _, _, _, _, _)
dxyn_bits_add_plot(c, m, x, row, byte, bit) ==
    IF bit >= 8 THEN Done(c, m, NEXT)
    ELSE LET col  == U8(c.v_registers[x] + bit) % get_sizes[1]
             addr == c.i_register + byte
         IN  IF ~InRam(addr) THEN Abort(c, m, "index out of bounds")
             ELSE LET pixel == BitAnd(Shr(m.memory[addr], 7 - bit), 1)
                      cell  == index(col, row)
                      c1    == SetV(c, 15, BitOr(c.v_registers[15],
                                                 BitAnd(pixel, m.display[cell])))
                      m1    == [m EXCEPT !.display[cell] = U8(m.display[cell] + pixel)]
                  IN  dxyn_bits_add_plot(c1, m1, x, row, byte, bit + 1)

\* the inner loop of op_dxyn taking the sprite bits from the least
\* significant one (>> bit instead of >> (7 - bit))
RECURSIVE dxyn_bits_lsb_first(_, _, _, _, _, _)
dxyn_bits_lsb_first(c, m, x, row, byte, bit) ==
    IF bit >= 8 THEN Done(c, m, NEXT)
    ELSE LET col  == U8(c.v_registers[x] + bit) % get_sizes[1]
             addr == c.i_register + byte
         IN  IF ~InRam(addr) THEN Abort(c, m, "index out of bounds")
             ELSE LET pixel == BitAnd(Shr(m.memory[addr], bit), 1)
                      cell  == index(col, row)
                      c1    == SetV(c, 15, BitOr(c.v_registers[15],
                                                 BitAnd(pixel, m.display[cell])))
                      m1    == [m EXCEPT !.display[cell] = BitXor(m.display[cell], pixel)]
                  IN  dxyn_bits_lsb_first(c1, m1, x, row, byte, bit + 1)

\* The inner loop of op_dxyn over the bits of one sprite row, from bit on.
\* row is the display row computed at the head of the outer iteration; the
\* column is computed from Vx anew for every bit.
RECURSIVE dxyn_bits(_, _, _, _, _, _)
dxyn_bits(c, m, x, row, byte, bit) ==
    IF bit >= 8 THEN Done(c, m, NEXT)
    ELSE LET col  == U8(c.v_registers[x] + bit) % get_sizes[1]
             addr == c.i_register + byte
         IN  IF ~InRam(addr) THEN Abort(c, m, "index out of bounds")
             ELSE LET pixel == BitAnd(Shr(m.memory[addr], 7 - bit), 1)
                      cell  == index(col, row)
                      c1    == SetV(c, 15, BitOr(c.v_registers[15],
                                                 BitAnd(pixel, m.display[cell])))
                      m1    == [m EXCEPT !.display[cell] = BitXor(m.display[cell], pixel)]
                  IN  dxyn_bits(c1, m1, x, row, byte, bit + 1)

\* The outer loop of op_dxyn over the sprite rows, from byte on.
RECURSIVE dxyn_rows(_, _, _, _, _, _)
dxyn_rows(c, m, x, y, n, byte) ==
    IF byte >= n THEN Done(c, m, NEXT)
    ELSE LET row == U8(c.v_registers[y] + U8(byte)) % get_sizes[2]
             r   == dxyn_bits(c, m, x, row, byte, 0)
         IN  IF r.panic # "none" THEN r
             ELSE dxyn_rows(r.cpu, r.memory, x, y, n, byte + 1)

op_dxyn(c, m, x, y, n) == dxyn_rows(SetV(c, 15, 0), m, x, y, n, 0)

op_ex9e(c, m, x, kb) ==
    IF c.v_registers[x] >= 16 THEN Abort(c, m, "index out of bounds")
    ELSE Done(c, m, skip_if(kb[c.v_registers[x]] = 1))

op_exa1(c, m, x, kb) ==
    IF c.v_registers[x] >= 16 THEN Abort(c, m, "index out of bounds")
    ELSE Done(c, m, skip_if(kb[c.v_registers[x]] = 0))

\* op_fx07 taking the delay timer: DT is 0 once it was read
op_fx07_consumes(c, m, x) ==
    Done([SetV(c, x, c.delay_timer_register) EXCEPT !.delay_timer_register = 0],
         m, NEXT)

op_fx07(c, m, x) == Done(SetV(c, x, c.delay_timer_register), m, NEXT)

\* op_fx0a keeping the program counter on the instruction until a key comes
op_fx0a_stays(c, m, x) ==
    Done([c EXCEPT !.waiting_for_input = TRUE, !.input_register = x], m, JUMP(c.pc))

op_fx0a(c, m, x) ==
    Done([c EXCEPT !.waiting_for_input = TRUE, !.input_register = x], m, NEXT)

op_fx15(c, m, x) ==
    Done([c EXCEPT !.delay_timer_register = c.v_registers[x]], m, NEXT)

op_fx18(c, m, x) ==
    Done([c EXCEPT !.sound_timer_register = c.v_registers[x]], m, NEXT)

\* i_register += Vx on a u16: a build with overflow checks panics when the
\* sum does not fit, a build without them wraps.
op_fx1e(c, m, x, checks) ==
    LET sum == c.i_register + c.v_registers[x]
    IN  IF sum > 65535 /\ checks THEN Abort(c, m, "attempt to add with overflow")
        ELSE Done([c EXCEPT !.i_register = U16(sum)], m, NEXT)

\* op_fx29 without the glyph size
op_fx29_no_scale(c, m, x) == Done([c EXCEPT !.i_register = c.v_registers[x]], m, NEXT)

op_fx29(c, m, x) == Done([c EXCEPT !.i_register = c.v_registers[x] * 5], m, NEXT)

\* op_fx33 with the tens digit taken as Vx / 10 (without % 100)
op_fx33_tens_unreduced(c, m, x) ==
    LET i == c.i_register
        v == c.v_registers[x]
    IN  IF ~InRam(i) \/ ~InRam(i + 1) \/ ~InRam(i + 2)
        THEN Abort(c, m, "index out of bounds")
        ELSE LET m1 == [m  EXCEPT !.memory[i] = v \div 100]
                 m2 == [m1 EXCEPT !.memory[i + 1] = v \div 10]
                 m3 == [m2 EXCEPT !.memory[i + 2] = v % 10]
             IN  Done(c, m3, NEXT)

op_fx33(c, m, x) ==
    LET i == c.i_register
        v == c.v_registers[x]
    IN  IF ~InRam(i) \/ ~InRam(i + 1) \/ ~InRam(i + 2)
        THEN Abort(c, m, "index out of bounds")
        ELSE LET m1 == [m  EXCEPT !.memory[i] = v \div 100]
                 m2 == [m1 EXCEPT !.memory[i + 1] = (v % 100) \div 10]
                 m3 == [m2 EXCEPT !.memory[i + 2] = v % 10]
             IN  Done(c, m3, NEXT)

\* the loop of op_fx55 over 0..x instead of 0..x + 1
RECURSIVE fx55_loop_exclusive(_, _, _, _)
fx55_loop_exclusive(c, m, x, idx) ==
    IF idx >= x THEN Done(c, m, NEXT)
    ELSE IF ~InRam(c.i_register + idx) THEN Abort(c, m, "index out of bounds")
    ELSE fx55_loop_exclusive(c, [m EXCEPT !.memory[c.i_register + idx] =
                                     c.v_registers[idx]], x, idx + 1)

\* the loop of op_fx55 from index on
RECURSIVE fx55_loop(_, _, _, _)
fx55_loop(c, m, x, idx) ==
    IF idx >= x + 1 THEN Done(c, m, NEXT)
    ELSE IF ~InRam(c.i_register + idx) THEN Abort(c, m, "index out of bounds")
    ELSE fx55_loop(c, [m EXCEPT !.memory[c.i_register + idx] = c.v_registers[idx]],
                   x, idx + 1)

op_fx55(c, m, x) == fx55_loop(c, m, x, 0)

\* the loop of op_fx65 from index on
RECURSIVE fx65_loop(_, _, _, _)
fx65_loop(c, m, x, idx) ==
    IF idx >= x + 1 THEN Done(c, m, NEXT)
    ELSE IF ~InRam(c.i_register + idx) THEN Abort(c, m, "index out of bounds")
    ELSE fx65_loop(SetV(c, idx, m.memory[c.i_register + idx]), m, x, idx + 1)

op_fx65(c, m, x) == fx65_loop(c, m, x, 0)

\* ------------------------------------------------------------------------
\* cpu.rs: fetch, decode, dispatch
\* ------------------------------------------------------------------------

\* Cpu::fetch_opcode: memory[pc] and memory[pc + 1], big-endian
fetch_opcode(c, m) ==
    IF ~InRam(c.pc) \/ ~InRam(c.pc + 1)
    THEN Abort(c, m, "index out of bounds")
    ELSE Done([c EXCEPT !.opcode = m.memory[c.pc] * 256 + m.memory[c.pc + 1]],
              m, NEXT)

\* the four nibbles of an opcode, most significant first
splitted_opcode(opcode) ==
    << (opcode \div 4096) % 16, (opcode \div 256) % 16,
       (opcode \div 16) % 16, opcode % 16 >>

\* the match of execute_opcode with the arm of 5xy0 written (0x05, _, _, _)
dispatch_5xy_any(c, m, kb, random, checks) ==
    LET s   == splitted_opcode(c.opcode)
        nnn == c.opcode % 4096
        kk  == c.opcode % 256
        x   == s[2]
        y   == s[3]
        n   == s[4]
    IN  IF s = << 0, 0, 14, 0 >>  THEN op_00e0(c, m)
        ELSE IF s = << 0, 0, 14, 14 >> THEN op_00ee(c, m)
        ELSE IF s[1] = 1  THEN op_1nnn(c, m, nnn)
        ELSE IF s[1] = 2  THEN op_2nnn(c, m, nnn)
        ELSE IF s[1] = 3  THEN op_3xkk(c, m, x, kk)
        ELSE IF s[1] = 4  THEN op_4xkk(c, m, x, kk)
        ELSE IF s[1] = 5  THEN op_5xy0(c, m, x, y)
        ELSE IF s[1] = 6  THEN op_6xkk(c, m, x, kk)
        ELSE IF s[1] = 7  THEN op_7xkk(c, m, x, kk)
        ELSE IF s[1] = 8 /\ n = 0  THEN op_8xy0(c, m, x, y)
        ELSE IF s[1] = 8 /\ n = 1  THEN op_8xy1(c, m, x, y)
        ELSE IF s[1] = 8 /\ n = 2  THEN op_8xy2(c, m, x, y)
        ELSE IF s[1] = 8 /\ n = 3  THEN op_8xy3(c, m, x, y)
        ELSE IF s[1] = 8 /\ n = 4  THEN op_8xy4(c, m, x, y)
        ELSE IF s[1] = 8 /\ n = 5  THEN op_8xy5(c, m, x, y)
        ELSE IF s[1] = 8 /\ n = 6  THEN op_8xy6(c, m, x, y)
        ELSE IF s[1] = 8 /\ n = 7  THEN op_8xy7(c, m, x, y)
        ELSE IF s[1] = 8 /\ n = 14 THEN op_8xye(c, m, x, y)
        ELSE IF s[1] = 9 /\ n = 0  THEN op_9xy0(c, m, x, y)
        ELSE IF s[1] = 10 THEN op_annn(c, m, nnn)
        ELSE IF s[1] = 11 THEN op_bnnn(c, m, nnn)
        ELSE IF s[1] = 12 THEN op_cxkk(c, m, x, kk, random)
        ELSE IF s[1] = 13 THEN op_dxyn(c, m, x, y, n)
        ELSE IF s[1] = 14 /\ y = 9  /\ n = 14 THEN op_ex9e(c, m, x, kb)
        ELSE IF s[1] = 14 /\ y = 10 /\ n = 1  THEN op_exa1(c, m, x, kb)
        ELSE IF s[1] = 15 /\ y = 0 /\ n = 7  THEN op_fx07(c, m, x)
        ELSE IF s[1] = 15 /\ y = 0 /\ n = 10 THEN op_fx0a(c, m, x)
        ELSE IF s[1] = 15 /\ y = 1 /\ n = 5  THEN op_fx15(c, m, x)
        ELSE IF s[1] = 15 /\ y = 1 /\ n = 8  THEN op_fx18(c, m, x)
        ELSE IF s[1] = 15 /\ y = 1 /\ n = 14 THEN op_fx1e(c, m, x, checks)
        ELSE IF s[1] = 15 /\ y = 2 /\ n = 9  THEN op_fx29(c, m, x)
        ELSE IF s[1] = 15 /\ y = 3 /\ n = 3  THEN op_fx33(c, m, x)
        ELSE IF s[1] = 15 /\ y = 5 /\ n = 5  THEN op_fx55(c, m, x)
        ELSE IF s[1] = 15 /\ y = 6 /\ n = 5  THEN op_fx65(c, m, x)
        ELSE Done(c, m, NEXT)

\* the match of execute_opcode: the first arm that fits is taken
dispatch(c, m, kb, random, checks) ==
    LET s   == splitted_opcode(c.opcode)
        nnn == c.opcode % 4096
        kk  == c.opcode % 256
        x   == s[2]
        y   == s[3]
        n   == s[4]
    IN  IF s = << 0, 0, 14, 0 >>  THEN op_00e0(c, m)
        ELSE IF s = << 0, 0, 14, 14 >> THEN op_00ee(c, m)
        ELSE IF s[1] = 1  THEN op_1nnn(c, m, nnn)
        ELSE IF s[1] = 2  THEN op_2nnn(c, m, nnn)
        ELSE IF s[1] = 3  THEN op_3xkk(c, m, x, kk)
        ELSE IF s[1] = 4  THEN op_4xkk(c, m, x, kk)
        ELSE IF s[1] = 5 /\ n = 0 THEN op_5xy0(c, m, x, y)
        ELSE IF s[1] = 6  THEN op_6xkk(c, m, x, kk)
        ELSE IF s[1] = 7  THEN op_7xkk(c, m, x, kk)
        ELSE IF s[1] = 8 /\ n = 0  THEN op_8xy0(c, m, x, y)
        ELSE IF s[1] = 8 /\ n = 1  THEN op_8xy1(c, m, x, y)
        ELSE IF s[1] = 8 /\ n = 2  THEN op_8xy2(c, m, x, y)
        ELSE IF s[1] = 8 /\ n = 3  THEN op_8xy3(c, m, x, y)
        ELSE IF s[1] = 8 /\ n = 4  THEN op_8xy4(c, m, x, y)
        ELSE IF s[1] = 8 /\ n = 5  THEN op_8xy5(c, m, x, y)
        ELSE IF s[1] = 8 /\ n = 6  THEN op_8xy6(c, m, x, y)
        ELSE IF s[1] = 8 /\ n = 7  THEN op_8xy7(c, m, x, y)
        ELSE IF s[1] = 8 /\ n = 14 THEN op_8xye(c, m, x, y)
        ELSE IF s[1] = 9 /\ n = 0  THEN op_9xy0(c, m, x, y)
        ELSE IF s[1] = 10 THEN op_annn(c, m, nnn)
        ELSE IF s[1] = 11 THEN op_bnnn(c, m, nnn)
        ELSE IF s[1] = 12 THEN op_cxkk(c, m, x, kk, random)
        ELSE IF s[1] = 13 THEN op_dxyn(c, m, x, y, n)
        ELSE IF s[1] = 14 /\ y = 9  /\ n = 14 THEN op_ex9e(c, m, x, kb)
        ELSE IF s[1] = 14 /\ y = 10 /\ n = 1  THEN op_exa1(c, m, x, kb)
        ELSE IF s[1] = 15 /\ y = 0 /\ n = 7  THEN op_fx07(c, m, x)
        ELSE IF s[1] = 15 /\ y = 0 /\ n = 10 THEN op_fx0a(c, m, x)
        ELSE IF s[1] = 15 /\ y = 1 /\ n = 5  THEN op_fx15(c, m, x)
        ELSE IF s[1] = 15 /\ y = 1 /\ n = 8  THEN op_fx18(c, m, x)
        ELSE IF s[1] = 15 /\ y = 1 /\ n = 14 THEN op_fx1e(c, m, x, checks)
        ELSE IF s[1] = 15 /\ y = 2 /\ n = 9  THEN op_fx29(c, m, x)
        ELSE IF s[1] = 15 /\ y = 3 /\ n = 3  THEN op_fx33(c, m, x)
        ELSE IF s[1] = 15 /\ y = 5 /\ n = 5  THEN op_fx55(c, m, x)
        ELSE IF s[1] = 15 /\ y = 6 /\ n = 5  THEN op_fx65(c, m, x)
        ELSE Done(c, m, NEXT)

\* Cpu::execute_opcode: run the handler of c.opcode, then move the program
\* counter as the handler asks
execute_opcode(c, m, kb, random, checks) ==
    LET r == dispatch(c, m, kb, random, checks)
    IN  IF r.panic # "none" THEN r
        ELSE [r EXCEPT !.cpu.pc =
                 CASE r.next.tag = "NEXT" -> r.cpu.pc + OPCODE_SIZE
                   [] r.next.tag = "SKIP" -> r.cpu.pc + OPCODE_SIZE * 2
                   [] r.next.tag = "JUMP" -> r.next.address]

\* update_timers without the test of waiting_for_input
update_timers_unguarded(c) ==
    LET c1 == IF c.delay_timer_register > 0
              THEN [c EXCEPT !.delay_timer_register = c.delay_timer_register - 1]
              ELSE c
        c2 == IF c1.sound_timer_register > 0
              THEN [c1 EXCEPT !.sound_timer_register = c1.sound_timer_register - 1]
              ELSE c1
    IN  [cpu |-> c2, result |-> "Ok"]

\* update_timers with the sound timer decremented only inside the test of
\* the delay timer
update_timers_coupled(c) ==
    IF ~c.waiting_for_input
    THEN LET c1 == IF c.delay_timer_register > 0
                   THEN [c EXCEPT !.delay_timer_register = c.delay_timer_register - 1,
                                  !.sound_timer_register =
                                      IF c.sound_timer_register > 0
                                      THEN c.sound_timer_register - 1 ELSE 0]
                   ELSE c
         IN  [cpu |-> c1, result |-> "Ok"]
    ELSE [cpu |-> c, result |-> "Err"]

\* Cpu::update_timers: the Cpu it leaves and the Result it returns
update_timers(c) ==
    IF ~c.waiting_for_input
    THEN LET c1 == IF c.delay_timer_register > 0
                   THEN [c EXCEPT !.delay_timer_register = c.delay_timer_register - 1]
                   ELSE c
             c2 == IF c1.sound_timer_register > 0
                   THEN [c1 EXCEPT !.sound_timer_register = c1.sound_timer_register - 1]
                   ELSE c1
         IN  [cpu |-> c2, result |-> "Ok"]
    ELSE [cpu |-> c, result |-> "Err"]

any(kb) == \E k \in 0 .. 15 : kb[k] = 1

\* a scan that keeps the last pressed key instead of the first
RECURSIVE position_last(_, _)
position_last(kb, k) ==
    IF k >= 15 THEN 15
    ELSE IF \E j \in (k + 1) .. 15 : kb[j] = 1 THEN position_last(kb, k + 1)
    ELSE k

\* keyboard.iter().position(|x| *x == 1), scanning from index k
RECURSIVE position(_, _)
position(kb, k) == IF kb[k] = 1 THEN k ELSE position(kb, k + 1)

\* the first statement of do_cycle writing the key but keeping the latch
wake_keeps_latch(c, kb) ==
    IF c.waiting_for_input /\ any(kb)
    THEN SetV(c, c.input_register, position(kb, 0))
    ELSE c

\* The first statement of do_cycle: a pressed key ends the wait and its index
\* is written to the latched register
wake(c, kb) ==
    IF c.waiting_for_input /\ any(kb)
    THEN SetV([c EXCEPT !.waiting_for_input = FALSE],
              c.input_register, position(kb, 0))
    ELSE c

\* do_cycle without the second test of waiting_for_input
do_cycle_ignores_wait(c, m, kb, random, checks) ==
    LET c1 == wake(c, kb)
        f  == fetch_opcode(c1, m)
    IN  IF f.panic # "none" THEN f
        ELSE LET e == execute_opcode(f.cpu, m, kb, random, checks)
             IN  IF e.panic # "none" THEN e
                 ELSE [e EXCEPT !.cpu.beeping = (e.cpu.sound_timer_register > 0)]

\* do_cycle returning once it has ended the wait, the fetch left to the
\* next call
do_cycle_wake_returns(c, m, kb, random, checks) ==
    LET c1 == wake(c, kb)
    IN  IF ~c.waiting_for_input
        THEN LET f == fetch_opcode(c1, m)
             IN  IF f.panic # "none" THEN f
                 ELSE LET e == execute_opcode(f.cpu, m, kb, random, checks)
                      IN  IF e.panic # "none" THEN e
                          ELSE [e EXCEPT !.cpu.beeping =
                                   (e.cpu.sound_timer_register > 0)]
        ELSE Done(c1, m, NEXT)

\* Cpu::do_cycle
do_cycle(c, m, kb, random, checks) ==
    LET c1 == wake(c, kb)
    IN  IF ~c1.waiting_for_input
        THEN LET f == fetch_opcode(c1, m)
             IN  IF f.panic # "none" THEN f
                 ELSE LET e == execute_opcode(f.cpu, m, kb, random, checks)
                      IN  IF e.panic # "none" THEN e
                          ELSE [e EXCEPT !.cpu.beeping =
                                   (e.cpu.sound_timer_register > 0)]
        ELSE Done(c1, m, NEXT)

\* ------------------------------------------------------------------------
\* ROM images and host inputs the model is run on
\* ------------------------------------------------------------------------

Ins(a, b, c, d) == << a * 16 + b, c * 16 + d >>

InsNNN(op, nnn) == << op * 16 + (nnn \div 256), nnn % 256 >>

InsXKK(op, x, kk) == << op * 16 + x, kk >>

\* jump to 0xFFF: the fetch that follows reads past the end of the memory
Halt == InsNNN(1, 4095)

File(bytes) == [readable |-> TRUE, bytes |-> bytes]

NoFile == [readable |-> FALSE, bytes |-> << >>]

\* an image of len bytes that starts with a jump to itself; byte i is nonzero
Filler(len) ==
    [i \in 1 .. len |-> IF i = 1 THEN 18 ELSE IF i = 2 THEN 0 ELSE ((i - 1) % 255) + 1]

\* images around the size limit of Memory::load
RomsLoad ==
    { NoFile, File(<< >>), File(Filler(1)), File(Filler(2)),
      File(Filler(RAM_SIZE - 512 - 1)), File(Filler(RAM_SIZE - 512)),
      File(Filler(RAM_SIZE - 512 + 1)), File(Filler(RAM_SIZE)) }

\* 0x200 calls 0x206, which calls 0x20A; both return; then a jump to itself
RomNested ==
    InsNNN(2, 518) \o InsNNN(1, 514) \o Ins(0, 0, 0, 0) \o InsNNN(2, 522)
      \o Ins(0, 0, 14, 14) \o Ins(0, 0, 14, 14)

\* a subroutine that calls itself for ever
RomRecurse == InsNNN(2, 512)

\* a return with nothing to return to
RomUnderflow == Ins(0, 0, 14, 14)

\* call k (k = 0 .. depth-1) sits at 0x200 + 4k and calls 0x200 + 4(k+1); a
\* return follows every call, and one sits at the end of the chain
RECURSIVE Chain(_, _)
Chain(k, depth) ==
    IF k >= depth THEN Ins(0, 0, 14, 14)
    ELSE InsNNN(2, 512 + 4 * (k + 1)) \o Ins(0, 0, 14, 14) \o Chain(k + 1, depth)

RomsStack ==
    { File(RomNested), File(RomRecurse), File(RomUnderflow),
      File(Chain(0, 2)), File(Chain(0, STACK_SIZE)) }

\* V0 = t; DT = V0; ST = V0; wait for a key into Vx; jump to the next
\* instruction; Vx += 1; wait for a key into Vx again; Vx += 1; halt
RomKey(t, x) ==
    InsXKK(6, 0, t) \o Ins(15, 0, 1, 5) \o Ins(15, 0, 1, 8) \o Ins(15, x, 0, 10)
      \o InsNNN(1, 522) \o InsXKK(7, x, 1) \o Ins(15, x, 0, 10)
      \o InsXKK(7, x, 1) \o Halt

RomsKey == { File(RomKey(2, 3)), File(RomKey(0, 15)) }

Roms == RomsLoad \cup RomsStack \cup RomsKey

\* the sets of host keys found down by one Keyboard::read
KeyPresses == { {}, {"Z", "Num4", "P"}, {"X"} }

\* the registers and the bytes the arithmetic instructions are run on
RegSamples == {0, 14, 15}

ByteSamples == {0, 1, 255}

\* Vx = a; Vy = b; 8xyk; halt
RomAlu(k, x, y, a, b) ==
    InsXKK(6, x, a) \o InsXKK(6, y, b) \o Ins(8, x, y, k) \o Halt

RomsAlu ==
    { File(RomAlu(k, x, y, a, b)) :
        k \in {4, 5, 7}, x \in RegSamples, y \in RegSamples,
        a \in ByteSamples, b \in ByteSamples }

\* fifteen sprite rows kept behind the instructions of a drawing image
SpriteData == << 255, 129, 60, 0, 1, 128, 24, 255, 85, 170, 15, 240, 1, 2, 255 >>

SpriteAddress == 512 + 20

\* V0 = 62; V1 = 30; I = 0; draw the 5 rows of glyph 0 at (V0, V1), over the
\* right and bottom edges; Vx = a; Vy = b; I = i; draw n rows at (Vx, Vy),
\* twice; halt; the sprite rows
RomDraw(x, y, a, b, i, n) ==
    InsXKK(6, 0, 62) \o InsXKK(6, 1, 30) \o InsNNN(10, 0) \o Ins(13, 0, 1, 5)
      \o InsXKK(6, x, a) \o InsXKK(6, y, b) \o InsNNN(10, i)
      \o Ins(13, x, y, n) \o Ins(13, x, y, n) \o Halt \o SpriteData

\* the register pairs and the positions the second sprite is drawn with
DrawRegs == { << 2, 3 >>, << 14, 14 >> }

DrawAt == { << 62, 30 >>, << 0, 0 >>, << 250, 254 >>, << 10, 10 >> }

RomsDraw ==
    { File(RomDraw(r[1], r[2], at[1], at[2], i, n)) :
        r \in DrawRegs, at \in DrawAt, i \in {0, SpriteAddress}, n \in {0, 5, 15} }

\* V0 = a; V1 = b; DT = V0; ST = V1; halt
RomTimer(a, b) ==
    InsXKK(6, 0, a) \o InsXKK(6, 1, b) \o Ins(15, 0, 1, 5) \o Ins(15, 1, 1, 8)
      \o Halt

\* V0 = 255; DT = V0; a return with nothing to return to
RomTimerTop == InsXKK(6, 0, 255) \o Ins(15, 0, 1, 5) \o Ins(0, 0, 14, 14)

\* the values the two timers are started with
TimerStarts == { << 0, 0 >>, << 2, 0 >>, << 0, 2 >>, << 1, 3 >> }

RomsTimer ==
    { File(RomTimer(t[1], t[2])) : t \in TimerStarts } \cup { File(RomTimerTop) }

\* I = i; V0 = 123; F0kk (F033 stores the digits of V0, F055 stores V0); halt
RomStore(i, kk) ==
    InsNNN(10, i) \o InsXKK(6, 0, 123) \o InsXKK(15, 0, kk) \o Halt

\* stores at the first font byte, across the last one, and behind the font
RomsStore ==
    { File(RomStore(0, 85)), File(RomStore(78, 51)), File(RomStore(80, 85)),
      File(RomStore(80, 51)) }

\* V0 = 2; V1 = 2; DT = V0; ST = V0; I = 5; draw glyph 1 at (V0, V1); call
\* the next instruction; the instruction hi lo; halt
RomUnknown(hi, lo) ==
    InsXKK(6, 0, 2) \o InsXKK(6, 1, 2) \o Ins(15, 0, 1, 5) \o Ins(15, 0, 1, 8)
      \o InsNNN(10, 5) \o Ins(13, 0, 1, 5) \o InsNNN(2, 526)
      \o << hi, lo >> \o Halt

\* instructions that fit no arm of execute_opcode
UnknownSamples ==
    { << 0, 0 >>, << 0, 225 >>, << 0, 254 >>, << 10, 188 >>, << 80, 17 >>,
      << 80, 31 >>, << 128, 24 >>, << 128, 29 >>, << 128, 31 >>, << 144, 17 >>,
      << 224, 159 >>, << 224, 162 >>, << 240, 0 >>, << 240, 86 >>, << 240, 255 >> }

RomsUnknown == { File(RomUnknown(u[1], u[2])) : u \in UnknownSamples }

\* V0 = random AND kk; a return with nothing to return to
RomRandom(kk) == InsXKK(12, 0, kk) \o Ins(0, 0, 14, 14)

RomsRandom == { File(RomRandom(255)), File(RomRandom(15)) }

\* I = 0; draw glyph 0 at (0, 0) three times; clear the display; halt
RomClear ==
    InsNNN(10, 0) \o Ins(13, 0, 0, 5) \o Ins(13, 0, 0, 5) \o Ins(13, 0, 0, 5)
      \o Ins(0, 0, 14, 0) \o Halt

RomsOps == RomsStore \cup RomsUnknown \cup RomsRandom \cup { File(RomClear) }

\* V0 = a; V1 = b; V2 = 1; DT = V2; ST = V2; the instruction hi lo; halt; halt
RomSkip(hi, lo, a, b) ==
    InsXKK(6, 0, a) \o InsXKK(6, 1, b) \o InsXKK(6, 2, 1) \o Ins(15, 2, 1, 5)
      \o Ins(15, 2, 1, 8) \o << hi, lo >> \o Halt \o Halt

\* 3005, 4005, 5010, 9010, E09E, E0A1
SkipSamples ==
    { << 48, 5 >>, << 64, 5 >>, << 80, 16 >>, << 144, 16 >>, << 224, 158 >>,
      << 224, 161 >> }

\* the values of V0 and V1 the skips are run on
SkipValues == { << 5, 5 >>, << 5, 0 >>, << 0, 5 >> }

RomsSkip ==
    { File(RomSkip(i[1], i[2], v[1], v[2])) : i \in SkipSamples, v \in SkipValues }

\* Vx = a; VF = 1; 7xkk; halt
RomAdd(x, a, kk) ==
    InsXKK(6, x, a) \o InsXKK(6, 15, 1) \o InsXKK(7, x, kk) \o Halt

RomsAdd ==
    { File(RomAdd(x, a, kk)) : x \in {0, 14}, a \in ByteSamples, kk \in ByteSamples }

\* Vx = a; Vy = 3; 8xyk; halt
RomShift(k, x, y, a) ==
    InsXKK(6, x, a) \o InsXKK(6, y, 3) \o Ins(8, x, y, k) \o Halt

\* the register pairs and the values the shifts are run on
ShiftRegs == { << 0, 1 >>, << 14, 15 >>, << 2, 2 >> }

ShiftValues == {0, 1, 128, 255}

RomsShift ==
    { File(RomShift(k, r[1], r[2], a)) : k \in {6, 14}, r \in ShiftRegs, a \in ShiftValues }

\* Vx = v; Fx29; halt
RomGlyph(x, v) == InsXKK(6, x, v) \o Ins(15, x, 2, 9) \o Halt

RomsGlyph == { File(RomGlyph(x, v)) : x \in {0, 15}, v \in {0, 1, 4, 15, 255} }

RomsReg == RomsSkip \cup RomsAdd \cup RomsShift \cup RomsGlyph

\* I = 0x300; Vx = v; Fx33; halt
RomBcd(x, v) == InsNNN(10, 768) \o InsXKK(6, x, v) \o Ins(15, x, 3, 3) \o Halt

RomsBcd == { File(RomBcd(x, v)) : x \in {0, 15}, v \in {0, 9, 100, 123, 255} }

\* V0 = 17; V1 = 34; V2 = 51; VF = 68; I = 0x300; Fx55; V0, V1, V2, VF = 0;
\* Fx65; halt
RomBlock(x) ==
    InsXKK(6, 0, 17) \o InsXKK(6, 1, 34) \o InsXKK(6, 2, 51) \o InsXKK(6, 15, 68)
      \o InsNNN(10, 768) \o Ins(15, x, 5, 5)
      \o InsXKK(6, 0, 0) \o InsXKK(6, 1, 0) \o InsXKK(6, 2, 0) \o InsXKK(6, 15, 0)
      \o Ins(15, x, 6, 5) \o Halt

RomsBlock == { File(RomBlock(x)) : x \in {0, 1, 15} }

\* 0x200 calls 0x204, which calls 0x208; there, two calls deep: V0 = 5;
\* V0 += 1; I = 0x300; I += V0; F033; F155; F165; D005; 00E0; DT = V0;
\* V0 = random AND 1; return (to 0x206); return (to 0x202); halt
RomFrame ==
    InsNNN(2, 516) \o Halt \o InsNNN(2, 520) \o Ins(0, 0, 14, 14)
      \o InsXKK(6, 0, 5) \o InsXKK(7, 0, 1) \o InsNNN(10, 768) \o Ins(15, 0, 1, 14)
      \o Ins(15, 0, 3, 3) \o Ins(15, 1, 5, 5) \o Ins(15, 1, 6, 5) \o Ins(13, 0, 0, 5)
      \o Ins(0, 0, 14, 0) \o Ins(15, 0, 1, 5) \o InsXKK(12, 0, 1) \o Ins(0, 0, 14, 14)

RomsMem == RomsBcd \cup RomsBlock \cup { File(RomFrame) }

\* V0 = 255; I = 0xFFF; I += V0 (F01E), 241 times: the 241st sum is 65550;
\* halt
RomIndex ==
    [i \in 1 .. (4 + 2 * 241 + 2) |->
        IF i <= 4 THEN (InsXKK(6, 0, 255) \o InsNNN(10, 4095))[i]
        ELSE IF i > 4 + 2 * 241 THEN Halt[i - (4 + 2 * 241)]
        ELSE Ins(15, 0, 1, 14)[2 - (i % 2)]]

RomsIndex == { File(RomIndex) }

\* Vx = v; DT = Vx; ST = Vx; Vy = DT; Vy += 1; Vy += V0; I = 0x300; Fy33;
\* I += Vy; I = glyph of Vy; one row drawn at (Vy, Vy); 00E0; skip if Vy = 0;
\* halt; halt
RomDelay(x, y, v) ==
    InsXKK(6, x, v) \o Ins(15, x, 1, 5) \o Ins(15, x, 1, 8) \o Ins(15, y, 0, 7)
      \o InsXKK(7, y, 1) \o Ins(8, y, 0, 4) \o InsNNN(10, 768) \o Ins(15, y, 3, 3)
      \o Ins(15, y, 1, 14) \o Ins(15, y, 2, 9) \o Ins(13, y, y, 1)
      \o Ins(0, 0, 14, 0) \o InsXKK(3, y, 0) \o Halt \o Halt

\* the registers the timers are set from and read into
DelayRegs == { << 0, 1 >>, << 15, 15 >>, << 2, 2 >> }

RomsDelay ==
    { File(RomDelay(r[1], r[2], v)) : r \in DelayRegs, v \in {0, 3} }

\* VF = 10; V0 = 3; I = 0 (glyph 0); five rows drawn at (Vx, Vy), twice; halt
RomFlagDraw(x, y) ==
    InsXKK(6, 15, 10) \o InsXKK(6, 0, 3) \o InsNNN(10, 0) \o Ins(13, x, y, 5)
      \o Ins(13, x, y, 5) \o Halt

RomsFlagDraw == { File(RomFlagDraw(r[1], r[2])) : r \in { << 15, 0 >>, << 0, 15 >>, << 15, 15 >> } }

\* V0 = v; E0 lo (E09E or E0A1); halt; halt
RomKeyIndex(lo, v) == InsXKK(6, 0, v) \o << 224, lo >> \o Halt \o Halt

RomsKeyIndex == { File(RomKeyIndex(lo, v)) : lo \in {158, 161}, v \in {5, 15, 16, 255} }


\* V1 = 99; V2 = 1; DT = V2; wait for a key into V1; the instruction hi lo;
\* V1 += 1; halt
RomWake(hi, lo) ==
    InsXKK(6, 1, 99) \o InsXKK(6, 2, 1) \o Ins(15, 2, 1, 5) \o Ins(15, 1, 0, 10)
      \o << hi, lo >> \o InsXKK(7, 1, 1) \o Halt

\* the instruction behind the wait: F10A, F30A, 612A, 7105, 120C, 1208 (a
\* jump to itself), A300, 00EE
WakeSamples ==
    { << 241, 10 >>, << 243, 10 >>, << 97, 42 >>, << 113, 5 >>, << 18, 12 >>,
      << 18, 8 >>, << 163, 0 >>, << 0, 238 >> }

RomsWake == { File(RomWake(w[1], w[2])) : w \in WakeSamples }

RomsEdge == RomsDelay \cup RomsFlagDraw \cup RomsKeyIndex \cup RomsWake

\* the images the wait is followed on to its end: a second wait into V1, and
\* V1 = 42, behind the first wait
RomsWait == { File(RomWake(241, 10)), File(RomWake(97, 42)) }

\* the number of instructions an image is followed for
CycleLimit(file) == IF file \in RomsIndex THEN MaxIndexCycles ELSE MaxCycles

\* ------------------------------------------------------------------------
\* main.rs: the driver
\* ------------------------------------------------------------------------

VARIABLES
    cpu,         \* the Cpu
    memory,      \* the Memory: its bytes and its Display
    keyboard,    \* the Keyboard vector
    rom_file,    \* the ROM file named on the command line
    driver,      \* where run() is: "start", "loop", "load_failed", "panicked"
    last,        \* the last operation run() invoked and how it ended
    cycles,      \* instructions executed so far
    call_sites   \* history: the calls that have not returned, oldest first,
                 \* each with its address and the stack depth it was made at

vars == << cpu, memory, keyboard, rom_file, driver, last, cycles, call_sites >>

InitWith(roms) ==
    /\ cpu = Cpu_new
    /\ memory = Memory_new
    /\ keyboard = Keyboard_new
    /\ rom_file \in roms
    /\ driver = "start"
    /\ last = [op |-> "new", result |-> "Ok"]
    /\ cycles = 0
    /\ call_sites = << >>

Init == InitWith(Roms)

\* run() entering its loop whatever memory.load returned
Load_ignores_error ==
    /\ driver = "start"
    /\ LET r == load(memory, rom_file)
       IN  /\ memory' = r.memory
           /\ driver' = "loop"
           /\ last' = [op |-> "load", result |-> r.result]
    /\ UNCHANGED << cpu, keyboard, rom_file, cycles, call_sites >>

\* run(): memory.load(rom_filepath); an Err makes run() return before its loop
Load ==
    /\ driver = "start"
    /\ LET r == load(memory, rom_file)
       IN  /\ memory' = r.memory
           /\ driver' = IF r.result = "Ok" THEN "loop" ELSE "load_failed"
           /\ last' = [op |-> "load", result |-> r.result]
    /\ UNCHANGED << cpu, keyboard, rom_file, cycles, call_sites >>

\* run(): keyboard.read(&event_pump)
KeyboardRead ==
    /\ driver = "loop"
    /\ \E keys \in KeyPresses : keyboard' = read(keys)
    /\ last' = [op |-> "read", result |-> "Ok"]
    /\ UNCHANGED << cpu, memory, rom_file, driver, cycles, call_sites >>

\* whether a do_cycle call on (c, kb) fetches an instruction
Fetches(c, kb) == ~c.waiting_for_input \/ any(kb)

\* The values the next instruction can draw that the Cpu state does not fix:
\* the random byte of Cxkk, and whether the build checks the u16 addition of
\* Fx1E for overflow.  An instruction that reads neither gets one fixed pair.
Draws(c, m) ==
    IF ~InRam(c.pc) \/ ~InRam(c.pc + 1) THEN { << 0, FALSE >> }
    ELSE LET hi == m.memory[c.pc]
             lo == m.memory[c.pc + 1]
         IN  IF hi \div 16 = 12 THEN { << r, FALSE >> : r \in gen_range }
             ELSE IF hi \div 16 = 15 /\ lo = 30 THEN { << 0, b >> : b \in BOOLEAN }
             ELSE { << 0, FALSE >> }

\* the history of pending calls after an instruction that ran to its end
Pending(sites, pc_before, depth_before, opcode) ==
    IF opcode \div 4096 = 2
    THEN Append(sites, [pc |-> pc_before, depth |-> depth_before])
    ELSE IF opcode = 238 /\ Len(sites) > 0 THEN SubSeq(sites, 1, Len(sites) - 1)
    ELSE sites

\* run(): cpu.do_cycle(&mut memory, &keyboard); a panic ends the process
DoCycle ==
    /\ driver = "loop"
    /\ Fetches(cpu, keyboard) => cycles < CycleLimit(rom_file)
    /\ \E d \in Draws(cpu, memory) :
         LET r == do_cycle(cpu, memory, keyboard, d[1], d[2])
         IN  /\ cpu' = r.cpu
             /\ memory' = r.memory
             /\ driver' = IF r.panic = "none" THEN "loop" ELSE "panicked"
             /\ last' = [op |-> "do_cycle",
                         result |-> IF r.panic # "none" THEN r.panic
                                    ELSE IF Fetches(cpu, keyboard) THEN "Ok"
                                    ELSE "idle"]
             /\ call_sites' = IF Fetches(cpu, keyboard) /\ r.panic = "none"
                              THEN Pending(call_sites, cpu.pc,
                                           cpu.stack.stack_pointer, r.cpu.opcode)
                              ELSE call_sites
    /\ cycles' = IF Fetches(cpu, keyboard) THEN cycles + 1 ELSE cycles
    /\ UNCHANGED << keyboard, rom_file >>

\* run(): cpu.update_timers()
UpdateTimers ==
    /\ driver = "loop"
    /\ LET r == update_timers(cpu)
       IN  /\ cpu' = r.cpu
           /\ last' = [op |-> "update_timers", result |-> r.result]
    /\ UNCHANGED << memory, keyboard, rom_file, driver, cycles, call_sites >>

Next == Load \/ KeyboardRead \/ DoCycle \/ UpdateTimers

Spec == Init /\ [][Next]_vars

InitAlu == InitWith(RomsAlu)

SpecAlu == InitAlu /\ [][Next]_vars

InitDraw == InitWith(RomsDraw)

SpecDraw == InitDraw /\ [][Next]_vars

InitTimer == InitWith(RomsTimer)

SpecTimer == InitTimer /\ [][Next]_vars

InitOps == InitWith(RomsOps)

SpecOps == InitOps /\ [][Next]_vars

InitReg == InitWith(RomsReg)

SpecReg == InitReg /\ [][Next]_vars

InitMem == InitWith(RomsMem)

SpecMem == InitMem /\ [][Next]_vars

InitIndex == InitWith(RomsIndex)

SpecIndex == InitIndex /\ [][Next]_vars

InitEdge == InitWith(RomsEdge)

SpecEdge == InitEdge /\ [][Next]_vars

InitWait == InitWith(RomsWait)

\* run() calls do_cycle again and again: every pass of its loop whose
\* delta_cycle has passed the clock rate makes the call
SpecWait == InitWait /\ [][Next]_vars /\ WF_vars(DoCycle)

\* ------------------------------------------------------------------------
\* Vocabulary of the properties
\* ------------------------------------------------------------------------

\* this step is a do_cycle call that fetched an instruction and ran it to
\* its end
Executed == cycles' = cycles + 1 /\ driver' = "loop"

\* the Cpu at the moment that instruction was fetched
Before == wake(cpu, keyboard)

\* the nibbles of the instruction that step executed
Op == splitted_opcode(cpu'.opcode)

\* this step is a do_cycle call that fetched an instruction, which ran to its
\* end or panicked
Decoded == cycles' = cycles + 1 /\ InRam(cpu.pc + 1)

Depth(c) == c.stack.stack_pointer

\* the smallest index of a pressed key
LowestKey(kb) == CHOOSE k \in 0 .. 15 : kb[k] = 1 /\ \A j \in 0 .. (k - 1) : kb[j] = 0

\* ------------------------------------------------------------------------
\* C1: 8xy4 with x in 0x0..0xE and any y: after the instruction VF is 1 if
\* the sum of the values Vx and Vy held before it exceeds 255 and 0
\* otherwise, and Vx is that sum modulo 256.
\* ------------------------------------------------------------------------
C1_Add8xy4 ==
    [][ (Executed /\ Op[1] = 8 /\ Op[4] = 4 /\ Op[2] <= 14) =>
          LET a == Before.v_registers[Op[2]]
              b == Before.v_registers[Op[3]]
          IN  /\ cpu'.v_registers[15] = (IF a + b > 255 THEN 1 ELSE 0)
              /\ cpu'.v_registers[Op[2]] = (a + b) % 256 ]_vars

\* 8E F4 has run on VE = 255, VF = 1: the sum wrapped to 0 with a carry
C1_Witness ==
    /\ last = [op |-> "do_cycle", result |-> "Ok"]
    /\ cpu.opcode = 36596
    /\ cpu.pc = 518
    /\ rom_file = File(RomAlu(4, 14, 15, 255, 1))
    /\ cpu.v_registers[14] = 0
    /\ cpu.v_registers[15] = 1

\* ------------------------------------------------------------------------
\* C2: 8xy5 with x in 0x0..0xE and any y, y = 0xF included: after the
\* instruction VF is 1 iff Vx > Vy for the values held before it, and Vx is
\* their difference Vx - Vy modulo 256.
\* ------------------------------------------------------------------------
C2_Sub8xy5 ==
    [][ (Executed /\ Op[1] = 8 /\ Op[4] = 5 /\ Op[2] <= 14) =>
          LET a == Before.v_registers[Op[2]]
              b == Before.v_registers[Op[3]]
          IN  /\ cpu'.v_registers[15] = (IF a > b THEN 1 ELSE 0)
              /\ cpu'.v_registers[Op[2]] = (a - b) % 256 ]_vars

\* ------------------------------------------------------------------------
\* C3: 8xy7 with x other than 0xF: after the instruction VF is 1 if Vy > Vx
\* for the values held before it and 0 otherwise, and Vx is Vy - Vx modulo
\* 256.
\* ------------------------------------------------------------------------
C3_Subn8xy7 ==
    [][ (Executed /\ Op[1] = 8 /\ Op[4] = 7 /\ Op[2] # 15) =>
          LET a == Before.v_registers[Op[2]]
              b == Before.v_registers[Op[3]]
          IN  /\ cpu'.v_registers[15] = (IF b > a THEN 1 ELSE 0)
              /\ cpu'.v_registers[Op[2]] = (b - a) % 256 ]_vars

\* ------------------------------------------------------------------------
\* C4: a 00EE that runs to its end returns to the most recent call that has
\* not returned yet: the program counter becomes the address of that 2nnn
\* plus 2 and the stack depth is again what it was before that call (so a
\* call followed by a return restores the depth, and nested calls return
\* last in, first out).  A 2nnn made at depth d < 16 leaves depth d + 1.
\* ------------------------------------------------------------------------
C4_CallReturnPairing ==
    [][ /\ (Executed /\ cpu'.opcode = 238) =>
              /\ Len(call_sites) > 0
              /\ cpu'.pc = call_sites[Len(call_sites)].pc + 2
              /\ Depth(cpu') = call_sites[Len(call_sites)].depth
        /\ (Executed /\ Op[1] = 2) =>
              /\ Depth(Before) < 16
              /\ Depth(cpu') = Depth(Before) + 1 ]_vars

\* the nested image: the inner subroutine (called from 0x206) has returned
\* to 0x208 and the outer call from 0x200 is still pending
C4_Witness ==
    /\ rom_file = File(RomNested)
    /\ last = [op |-> "do_cycle", result |-> "Ok"]
    /\ cpu.opcode = 238
    /\ cpu.pc = 520
    /\ Depth(cpu) = 1
    /\ call_sites = << [pc |-> 512, depth |-> 0] >>

\* bit b (0 = leftmost) of row r of the sprite at address i
SpriteBit(m, i, r, b) == (m.memory[i + r] \div Pow2(7 - b)) % 2

\* the display cell bit b of row r of a sprite drawn at (vx, vy) lands on
SpriteCell(vx, vy, r, b) == ((vy + r) % 32) * 64 + ((vx + b) % 64)

\* ------------------------------------------------------------------------
\* C5: for x, y in 0x0..0xE, executing the Dxyn that has just run once more,
\* with Vx, Vy, I and the sprite bytes as they are, gives every display cell
\* the value it had before the first draw, whatever the display held; VF
\* after the second draw is 1 iff some set sprite bit lies over a cell that
\* was set when the second draw began.
\* ------------------------------------------------------------------------
C5_DrawTwiceRestores ==
    [][ (Executed /\ Op[1] = 13 /\ Op[2] <= 14 /\ Op[3] <= 14) =>
          LET second == op_dxyn(cpu', memory', Op[2], Op[3], Op[4])
              vx     == cpu'.v_registers[Op[2]]
              vy     == cpu'.v_registers[Op[3]]
          IN  /\ second.panic = "none"
              /\ vx = Before.v_registers[Op[2]] /\ vy = Before.v_registers[Op[3]]
              /\ cpu'.i_register = Before.i_register /\ memory'.memory = memory.memory
              /\ second.memory.display = memory.display
              /\ (second.cpu.v_registers[15] = 1) <=>
                    \E r \in 0 .. (Op[4] - 1), b \in 0 .. 7 :
                        /\ SpriteBit(memory', cpu'.i_register, r, b) = 1
                        /\ memory'.display[SpriteCell(vx, vy, r, b)] = 1
              /\ second.cpu.v_registers[15] \in {0, 1} ]_vars

\* the 15-row sprite has been drawn twice at (250, 254), across the glyph
\* drawn first: the second draw collided (VF = 1) and the display shows the
\* glyph alone again
C5_Witness ==
    /\ rom_file = File(RomDraw(2, 3, 250, 254, SpriteAddress, 15))
    /\ last = [op |-> "do_cycle", result |-> "Ok"]
    /\ cycles = 9
    /\ cpu.opcode = 53823
    /\ cpu.v_registers[15] = 1
    /\ memory.display[SpriteCell(62, 30, 0, 0)] = 1
    /\ memory.display[SpriteCell(250, 254, 0, 7)] = 1
    /\ memory.display[SpriteCell(250, 254, 0, 0)] = 0
    /\ memory.display =
          op_dxyn(SetV(SetV(Cpu_new, 0, 62), 1, 30), Memory_new, 0, 1, 5).memory.display

\* ------------------------------------------------------------------------
\* C6: a do_cycle call made while the Cpu waits for a key and no key is
\* pressed changes nothing: program counter, registers, I, timers, stack,
\* latch, beeping, memory and display are as before, and the Cpu still waits.
\* ------------------------------------------------------------------------
C6_IdleCycleChangesNothing ==
    [][ (last'.op = "do_cycle" /\ cpu.waiting_for_input /\ ~any(keyboard)) =>
          /\ cpu' = cpu
          /\ memory' = memory
          /\ cpu'.waiting_for_input ]_vars

\* a do_cycle call has returned without fetching while DT and ST are running
C6_Witness ==
    /\ last = [op |-> "do_cycle", result |-> "idle"]
    /\ cpu.waiting_for_input
    /\ ~any(keyboard)
    /\ cpu.delay_timer_register > 0
    /\ cpu.pc = 520

\* ------------------------------------------------------------------------
\* C7: update_timers called while the Cpu waits for a key changes no Cpu
\* state (DT, ST and the latch included) and returns Err; it returns Ok
\* exactly when the Cpu is not waiting.
\* ------------------------------------------------------------------------
C7_TimersFreezeInWait ==
    [][ (last'.op = "update_timers") =>
          /\ (last'.result = "Ok") <=> ~cpu.waiting_for_input
          /\ (last'.result = "Err") <=> cpu.waiting_for_input
          /\ cpu.waiting_for_input => (cpu' = cpu /\ memory' = memory) ]_vars

\* update_timers has returned Err with both timers still at 2
C7_Witness ==
    /\ last = [op |-> "update_timers", result |-> "Err"]
    /\ cpu.waiting_for_input
    /\ cpu.delay_timer_register = 2
    /\ cpu.sound_timer_register = 2

\* ------------------------------------------------------------------------
\* C8: when do_cycle is called while the Cpu waits and some key is pressed,
\* the value written to the latched register is the smallest pressed index
\* and the write clears the latch; when the instruction executed in that
\* same call is a jump, the register still holds that index afterwards.
\* ------------------------------------------------------------------------
C8_WakeWritesLowestKey ==
    [][ (last'.op = "do_cycle" /\ cpu.waiting_for_input /\ any(keyboard)) =>
          /\ Before.v_registers[cpu.input_register] = LowestKey(keyboard)
          /\ ~Before.waiting_for_input
          /\ \A r \in 0 .. 15 :
                r # cpu.input_register => Before.v_registers[r] = cpu.v_registers[r]
          /\ (Executed /\ Op[1] = 1) =>
                /\ cpu'.v_registers[cpu.input_register] = LowestKey(keyboard)
                /\ ~cpu'.waiting_for_input ]_vars

\* keys 5 and 12 were down when the wait into V3 ended: V3 = 5
C8_Witness ==
    /\ last = [op |-> "do_cycle", result |-> "Ok"]
    /\ keyboard[5] = 1 /\ keyboard[12] = 1
    /\ cpu.opcode = 4618
    /\ cpu.pc = 522
    /\ cpu.input_register = 3
    /\ cpu.v_registers[3] = 5
    /\ ~cpu.waiting_for_input

\* ------------------------------------------------------------------------
\* C9: loading an image of L bytes succeeds iff L <= 3584; a successful load
\* puts byte i of the image at address 0x200 + i and changes no other
\* address; a failed load returns an error and changes no memory byte.
\* ------------------------------------------------------------------------
C9_LoadBoundary ==
    [][ (last'.op = "load" /\ rom_file.readable) =>
          LET L == Len(rom_file.bytes)
          IN  /\ (last'.result = "Ok") <=> (L <= 3584)
              /\ (last'.result = "Err") <=> (L >= 3585)
              /\ last'.result = "Ok" =>
                    \A a \in 0 .. 4095 :
                        memory'.memory[a] =
                            IF a >= 512 /\ a - 512 < L
                            THEN rom_file.bytes[(a - 512) + 1]
                            ELSE memory.memory[a]
              /\ last'.result = "Err" => memory'.memory = memory.memory
              /\ memory'.display = memory.display ]_vars

\* an image of exactly 3584 bytes has been loaded: its last byte is at 0xFFF
C9_Witness ==
    /\ last = [op |-> "load", result |-> "Ok"]
    /\ Len(rom_file.bytes) = 3584
    /\ memory.memory[4095] = rom_file.bytes[3584]
    /\ memory.memory[4095] # 0
    /\ memory.memory[511] = 0

\* ------------------------------------------------------------------------
\* C10: the stack depth is always in 0..16; a 2nnn fetched with 16 return
\* addresses stacked aborts with a stack overflow, a 00EE fetched with an
\* empty stack aborts with a stack underflow, and a 2nnn fetched at a depth
\* below 16 succeeds (so 16 nested calls succeed).
\* ------------------------------------------------------------------------
C10_BoundedStack ==
    [][ /\ Depth(cpu) \in 0 .. 16 /\ Depth(cpu') \in 0 .. 16
        /\ (Decoded /\ Op[1] = 2 /\ Depth(Before) = 16) =>
              (driver' = "panicked" /\ last'.result = "stack overflow")
        /\ (Decoded /\ Op[1] = 2 /\ Depth(Before) < 16) =>
              (driver' = "loop" /\ Depth(cpu') = Depth(Before) + 1)
        /\ (Decoded /\ cpu'.opcode = 238 /\ Depth(Before) = 0) =>
              (driver' = "panicked" /\ last'.result = "stack underflow")
        /\ (Decoded /\ cpu'.opcode = 238 /\ Depth(Before) > 0) =>
              (driver' = "loop" /\ Depth(cpu') = Depth(Before) - 1) ]_vars

\* sixteen calls are stacked and the seventeenth has aborted
C10_Witness ==
    /\ driver = "panicked"
    /\ last = [op |-> "do_cycle", result |-> "stack overflow"]
    /\ Depth(cpu) = 16
    /\ cpu.opcode \div 4096 = 2
    /\ Len(call_sites) = 16

\* ------------------------------------------------------------------------
\* C11: update_timers called while the Cpu is not waiting takes 1 from DT if
\* DT > 0 and leaves it 0 otherwise, and does the same to ST, each timer on
\* its own; DT and ST are in 0..255 in every state, and no call turns a
\* timer that is 0 into 255.
\* ------------------------------------------------------------------------
C11_TimerTick ==
    [][ /\ cpu.delay_timer_register \in 0 .. 255
        /\ cpu.sound_timer_register \in 0 .. 255
        /\ cpu'.delay_timer_register \in 0 .. 255
        /\ cpu'.sound_timer_register \in 0 .. 255
        /\ (last'.op = "update_timers" /\ ~cpu.waiting_for_input) =>
              /\ cpu'.delay_timer_register =
                    (IF cpu.delay_timer_register > 0
                     THEN cpu.delay_timer_register - 1 ELSE 0)
              /\ cpu'.sound_timer_register =
                    (IF cpu.sound_timer_register > 0
                     THEN cpu.sound_timer_register - 1 ELSE 0)
              /\ ~(cpu.delay_timer_register = 0 /\ cpu'.delay_timer_register = 255)
              /\ ~(cpu.sound_timer_register = 0 /\ cpu'.sound_timer_register = 255) ]_vars

\* DT was started at 0 and ST at 2: two calls of update_timers later ST has
\* reached 0 on its own and DT is still 0
C11_Witness ==
    /\ rom_file = File(RomTimer(0, 2))
    /\ last = [op |-> "update_timers", result |-> "Ok"]
    /\ cpu.pc = 520
    /\ cpu.opcode = 61720
    /\ cpu.delay_timer_register = 0
    /\ cpu.sound_timer_register = 0

\* ------------------------------------------------------------------------
\* C12: after every do_cycle call and after every update_timers call that
\* returns, in any order of the two, beeping is TRUE exactly when ST > 0.
\* ------------------------------------------------------------------------
C12_BeepingTracksSoundTimer ==
    [][ (last'.op \in {"do_cycle", "update_timers"} /\ driver' = "loop") =>
          (cpu'.beeping <=> cpu'.sound_timer_register > 0) ]_vars

\* ------------------------------------------------------------------------
\* C13: in every state reached from construction by a load and any cycles,
\* the addresses 0x000..0x04F hold the 80 font bytes, the glyph of digit d
\* at 5d..5d+4.
\* ------------------------------------------------------------------------
C13_FontImmutable ==
    \A d \in 0 .. 15 : \A k \in 0 .. 4 :
        memory.memory[5 * d + k] = SPRITES[5 * d + k + 1]

\* ------------------------------------------------------------------------
\* C14: every address a cycle reads or writes lies in 0..4095: an
\* instruction is fetched only with PC and PC + 1 in range, no do_cycle call
\* aborts on an index out of range, and the only aborts are the stack
\* overflow and the stack underflow.
\* ------------------------------------------------------------------------
C14_AccessesInRange ==
    [][ /\ (cycles' = cycles + 1) => (InRam(Before.pc) /\ InRam(Before.pc + 1))
        /\ (last'.op = "do_cycle") =>
              last'.result \in {"Ok", "idle", "stack overflow", "stack underflow"} ]_vars

\* the instructions of the opcode table: 00E0, 00EE, 1nnn..4nnn, 5xy0, 6xkk,
\* 7xkk, 8xy0..8xy7, 8xyE, 9xy0, Annn..Dxyn, Ex9E, ExA1 and the nine Fx forms
Known(opcode) ==
    LET family == opcode \div 4096
        low    == opcode % 16
        byte   == opcode % 256
    IN  \/ opcode \in {224, 238}
        \/ family \in {1, 2, 3, 4, 6, 7, 10, 11, 12, 13}
        \/ family \in {5, 9} /\ low = 0
        \/ family = 8 /\ low \in {0, 1, 2, 3, 4, 5, 6, 7, 14}
        \/ family = 14 /\ byte \in {158, 161}
        \/ family = 15 /\ byte \in {7, 10, 21, 24, 30, 41, 51, 85, 101}

\* ------------------------------------------------------------------------
\* C15: a fetched instruction that is none of the opcode table never aborts
\* and moves the program counter on by exactly 2; the V registers, I, DT,
\* ST, the stack, the latch and its register, the memory and the display
\* are as they were when it was fetched.
\* ------------------------------------------------------------------------
C15_UnknownIsNoOp ==
    [][ (Decoded /\ ~Known(cpu'.opcode)) =>
          /\ driver' = "loop"
          /\ cpu'.pc = Before.pc + 2
          /\ cpu' = [Before EXCEPT !.pc = Before.pc + 2,
                                   !.opcode = cpu'.opcode,
                                   !.beeping = cpu'.beeping]
          /\ memory' = memory ]_vars

\* 5011 has run with V0 = V1 = 2, a call pending and glyph 1 on the display
C15_Witness ==
    /\ rom_file = File(RomUnknown(80, 17))
    /\ last = [op |-> "do_cycle", result |-> "Ok"]
    /\ cpu.opcode = 20497
    /\ cpu.pc = 528
    /\ Depth(cpu) = 1
    /\ cpu.v_registers[0] = 2 /\ cpu.v_registers[1] = 2
    /\ cpu.i_register = 5
    /\ memory.display[SpriteCell(2, 2, 0, 2)] = 1

\* ------------------------------------------------------------------------
\* C16: the values Vx can hold after Cxkk are exactly the r AND kk with r
\* any byte, 0 to 255 inclusive (with kk = 0xFF every value 0..255, 255
\* included, can result), and the value it holds is one of them.
\* ------------------------------------------------------------------------
C16_RandomCoversAllBytes ==
    [][ (Executed /\ Op[1] = 12) =>
          LET x  == Op[2]
              kk == cpu'.opcode % 256
              outcomes == { op_cxkk(Before, memory, x, kk, r).cpu.v_registers[x] :
                              r \in gen_range }
          IN  /\ cpu'.v_registers[x] \in outcomes
              /\ outcomes = { BitAnd(r, kk) : r \in 0 .. 255 } ]_vars

\* ------------------------------------------------------------------------
\* C17: Dxyn with x, y in 0x0..0xE: for every row r < n and bit b < 8 the
\* cell ((Vx + b) mod 64, (Vy + r) mod 32) becomes its old value XOR bit
\* (7 - b) of memory[I + r], every cell no sprite bit lands on keeps its
\* value, and VF is 1 if some set sprite bit landed on a cell that was 1 and
\* 0 otherwise; with n = 0 the display is unchanged and VF is 0.
\* ------------------------------------------------------------------------
C17_DrawXorWrap ==
    [][ (Executed /\ Op[1] = 13 /\ Op[2] <= 14 /\ Op[3] <= 14) =>
          LET vx   == Before.v_registers[Op[2]]
              vy   == Before.v_registers[Op[3]]
              i    == Before.i_register
              n    == Op[4]
              bits == (0 .. (n - 1)) \X (0 .. 7)
              landed == { SpriteCell(vx, vy, p[1], p[2]) : p \in bits }
          IN  /\ \A p \in bits :
                    memory'.display[SpriteCell(vx, vy, p[1], p[2])] =
                       (memory.display[SpriteCell(vx, vy, p[1], p[2])]
                          + SpriteBit(memory, i, p[1], p[2])) % 2
              /\ { cell \in 0 .. 2047 : memory'.display[cell] # memory.display[cell] }
                    \subseteq landed
              /\ cpu'.v_registers[15] =
                    (IF \E p \in bits :
                          /\ SpriteBit(memory, i, p[1], p[2]) = 1
                          /\ memory.display[SpriteCell(vx, vy, p[1], p[2])] = 1
                     THEN 1 ELSE 0)
              /\ n = 0 => (memory'.display = memory.display /\ cpu'.v_registers[15] = 0)
              /\ memory'.memory = memory.memory ]_vars

\* glyph 0 has been drawn at (62, 30), over the right and the bottom edge,
\* onto the same glyph drawn there before: every bit collided, VF = 1 and
\* the display is empty again
C17_Witness ==
    /\ rom_file = File(RomDraw(2, 3, 62, 30, 0, 5))
    /\ last = [op |-> "do_cycle", result |-> "Ok"]
    /\ cycles = 8
    /\ cpu.opcode = 53813
    /\ cpu.v_registers[2] = 62 /\ cpu.v_registers[3] = 30
    /\ cpu.v_registers[15] = 1
    /\ memory.display = Display_new

\* ------------------------------------------------------------------------
\* C18: in every state the display has its 64 x 32 cells and each holds 0
\* or 1, whatever 00E0 and Dxyn instructions have run; after 00E0 every cell
\* is 0.
\* ------------------------------------------------------------------------
C18_CellsAreBits ==
    [][ /\ memory.display \in [0 .. (64 * 32 - 1) -> {0, 1}]
        /\ memory'.display \in [0 .. (64 * 32 - 1) -> {0, 1}]
        /\ (Executed /\ cpu'.opcode = 224) =>
              memory'.display = [cell \in 0 .. (64 * 32 - 1) |-> 0] ]_vars

\* glyph 0 was drawn, erased by a second draw and drawn again, and 00E0 has
\* then cleared it
C18_Witness ==
    /\ rom_file = File(RomClear)
    /\ last = [op |-> "do_cycle", result |-> "Ok"]
    /\ cycles = 5
    /\ cpu.opcode = 224
    /\ cpu.pc = 522
    /\ cpu.v_registers[15] = 0
    /\ memory.display = Display_new

\* ------------------------------------------------------------------------
\* C19: the cycle that executes Fx0A sets the waiting latch with register x
\* as its target, moves the program counter on by 2 and changes no V
\* register; the wait holds from the next do_cycle call on, which fetches
\* nothing while no key is pressed.
\* ------------------------------------------------------------------------
C19_WaitEntry ==
    [][ /\ (Executed /\ Op[1] = 15 /\ Op[3] = 0 /\ Op[4] = 10) =>
              /\ cpu'.waiting_for_input
              /\ cpu'.input_register = Op[2]
              /\ cpu'.pc = Before.pc + 2
              /\ cpu'.v_registers = Before.v_registers
        /\ (last'.op = "do_cycle" /\ cpu.waiting_for_input /\ ~any(keyboard)) =>
              /\ cycles' = cycles
              /\ cpu'.pc = cpu.pc
              /\ cpu'.opcode = cpu.opcode ]_vars

\* F30A at 0x206 has just run: the Cpu waits for a key into V3 with the
\* program counter behind the instruction
C19_Witness ==
    /\ rom_file = File(RomKey(2, 3))
    /\ last = [op |-> "do_cycle", result |-> "Ok"]
    /\ cycles = 4
    /\ cpu.opcode = 62218
    /\ cpu.pc = 520
    /\ cpu.waiting_for_input
    /\ cpu.input_register = 3
    /\ cpu.v_registers[3] = 0

\* ------------------------------------------------------------------------
\* C20: when the load fails run() returns before its loop: nothing is
\* invoked after a failed load, so no do_cycle and no update_timers call
\* ever follows it; every do_cycle and update_timers call is made in the
\* loop, which is entered only by a load that succeeded (a readable image of
\* at most 3584 bytes).
\* ------------------------------------------------------------------------
C20_LoadBeforeRun ==
    [][ /\ driver # "load_failed"
        /\ (last'.op = "load") =>
              /\ driver = "start"
              /\ (driver' = "loop") <=> (last'.result = "Ok")
              /\ (driver' = "load_failed") <=> (last'.result = "Err")
        /\ (last'.op \in {"do_cycle", "update_timers"} \/ cycles' # cycles) =>
              /\ driver = "loop"
              /\ rom_file.readable
              /\ Len(rom_file.bytes) <= 3584 ]_vars

\* the load of an image of 3585 bytes has failed: run() has returned with
\* the Cpu as constructed and no cycle executed
C20_Witness ==
    /\ driver = "load_failed"
    /\ last = [op |-> "load", result |-> "Err"]
    /\ Len(rom_file.bytes) = 3585
    /\ cycles = 0
    /\ cpu = Cpu_new
    /\ memory = Memory_new

\* ------------------------------------------------------------------------
\* C21: 3xkk, 4xkk, 5xy0, 9xy0, Ex9E and ExA1 (the key forms with Vx in
\* 0..15) run to their end and leave the program counter at PC + 4 exactly
\* when their condition holds (Vx = kk, Vx # kk, Vx = Vy, Vx # Vy, key Vx
\* pressed, key Vx not pressed) and at PC + 2 otherwise; V registers, I,
\* timers, stack, latch, memory and display are unchanged.
\* ------------------------------------------------------------------------
C21_ConditionalSkips ==
    [][ LET f  == Op[1]
            kk == cpu'.opcode % 256
            vx == Before.v_registers[Op[2]]
            vy == Before.v_registers[Op[3]]
        IN  (/\ Decoded
             /\ \/ f \in {3, 4}
                \/ f \in {5, 9} /\ Op[4] = 0
                \/ f = 14 /\ kk \in {158, 161} /\ vx <= 15) =>
               LET condition ==
                     CASE f = 3 -> vx = kk
                       [] f = 4 -> vx # kk
                       [] f = 5 -> vx = vy
                       [] f = 9 -> vx # vy
                       [] f = 14 /\ kk = 158 -> keyboard[vx] = 1
                       [] f = 14 /\ kk = 161 -> keyboard[vx] = 0
               IN  /\ driver' = "loop"
                   /\ cpu'.pc = Before.pc + (IF condition THEN 4 ELSE 2)
                   /\ cpu' = [Before EXCEPT !.pc = cpu'.pc,
                                            !.opcode = cpu'.opcode,
                                            !.beeping = cpu'.beeping]
                   /\ memory' = memory ]_vars

\* E09E has run with V0 = 5 while key 5 was down: the halt at 0x20C was
\* skipped
C21_Witness ==
    /\ rom_file = File(RomSkip(224, 158, 5, 0))
    /\ last = [op |-> "do_cycle", result |-> "Ok"]
    /\ cpu.opcode = 57502
    /\ keyboard[5] = 1
    /\ cpu.v_registers[0] = 5
    /\ cpu.pc = 526

\* ------------------------------------------------------------------------
\* C22: 7xkk with x in 0x0..0xE never aborts; after it Vx is (Vx + kk) mod
\* 256 for the Vx held before, and VF and every other register are
\* unchanged.
\* ------------------------------------------------------------------------
C22_AddImmediateWraps ==
    [][ (Decoded /\ Op[1] = 7 /\ Op[2] <= 14) =>
          LET x  == Op[2]
              kk == cpu'.opcode % 256
          IN  /\ driver' = "loop"
              /\ cpu'.v_registers[x] = (Before.v_registers[x] + kk) % 256
              /\ cpu'.v_registers[15] = Before.v_registers[15]
              /\ \A r \in 0 .. 15 :
                    r # x => cpu'.v_registers[r] = Before.v_registers[r] ]_vars

\* 7EFF has run on VE = 1 with VF = 1: VE = 0 and VF is still 1
C22_Witness ==
    /\ rom_file = File(RomAdd(14, 1, 255))
    /\ last = [op |-> "do_cycle", result |-> "Ok"]
    /\ cpu.opcode = 32511
    /\ cpu.pc = 518
    /\ cpu.v_registers[14] = 0
    /\ cpu.v_registers[15] = 1

\* ------------------------------------------------------------------------
\* C23: with x in 0x0..0xE and a the value of Vx before, 8xy6 leaves VF =
\* a mod 2 and Vx = a div 2, and 8xyE leaves VF = a div 128 and Vx = 2a mod
\* 256, whatever Vy holds; no register other than Vx and VF changes (Vy
\* keeps its value unless y is x or 0xF).
\* ------------------------------------------------------------------------
C23_Shifts ==
    [][ (Executed /\ Op[1] = 8 /\ Op[4] \in {6, 14} /\ Op[2] <= 14) =>
          LET x == Op[2]
              a == Before.v_registers[x]
          IN  /\ Op[4] = 6 =>
                    /\ cpu'.v_registers[15] = a % 2
                    /\ cpu'.v_registers[x] = a \div 2
              /\ Op[4] = 14 =>
                    /\ cpu'.v_registers[15] = a \div 128
                    /\ cpu'.v_registers[x] = (2 * a) % 256
              /\ \A r \in 0 .. 14 :
                    r # x => cpu'.v_registers[r] = Before.v_registers[r] ]_vars

\* 801E has run on V0 = 255 with V1 = 3: V0 = 254, VF = 1 and V1 is still 3
C23_Witness ==
    /\ rom_file = File(RomShift(14, 0, 1, 255))
    /\ last = [op |-> "do_cycle", result |-> "Ok"]
    /\ cpu.opcode = 32798
    /\ cpu.v_registers[0] = 254
    /\ cpu.v_registers[1] = 3
    /\ cpu.v_registers[15] = 1

\* ------------------------------------------------------------------------
\* C27: after Fx29 I is 5 * Vx (5 for Vx = 1, 20 for Vx = 4); for Vx in
\* 0..15 the five bytes at I..I+4 of a newly constructed memory, and of the
\* memory of a program that has not stored there, are the glyph of the
\* hexadecimal digit Vx.
\* ------------------------------------------------------------------------
C27_FontLookup ==
    [][ (Executed /\ Op[1] = 15 /\ Op[3] = 2 /\ Op[4] = 9) =>
          LET vx == Before.v_registers[Op[2]]
              i  == cpu'.i_register
          IN  /\ i = 5 * vx
              /\ vx = 1 => (i = 5 /\ << memory'.memory[i], memory'.memory[i + 1],
                                        memory'.memory[i + 2], memory'.memory[i + 3],
                                        memory'.memory[i + 4] >>
                                        = << 32, 96, 32, 32, 112 >>)
              /\ vx = 4 => (i = 20 /\ << memory'.memory[i], memory'.memory[i + 1],
                                         memory'.memory[i + 2], memory'.memory[i + 3],
                                         memory'.memory[i + 4] >>
                                         = << 144, 144, 240, 16, 16 >>)
              /\ vx <= 15 =>
                    \A k \in 0 .. 4 :
                        /\ Memory_new.memory[i + k] = SPRITES[5 * vx + k + 1]
                        /\ memory'.memory[i + k] = SPRITES[5 * vx + k + 1] ]_vars

\* FF29 has run with VF = 4: I = 20, the address of the glyph of 4
C27_Witness ==
    /\ rom_file = File(RomGlyph(15, 4))
    /\ last = [op |-> "do_cycle", result |-> "Ok"]
    /\ cpu.opcode = 65321
    /\ cpu.v_registers[15] = 4
    /\ cpu.i_register = 20
    /\ memory.memory[20] = 144 /\ memory.memory[24] = 16

\* ------------------------------------------------------------------------
\* C24: after Fx33 with v the value of Vx, memory[I] = v div 100,
\* memory[I + 1] = (v mod 100) div 10 and memory[I + 2] = v mod 10: each is
\* a digit 0..9 and 100 * memory[I] + 10 * memory[I + 1] + memory[I + 2] =
\* v; I, the V registers, every other memory byte and the display are
\* unchanged.  The three digits are those for every byte Vx could hold
\* there.
\* ------------------------------------------------------------------------
C24_Bcd ==
    [][ (Executed /\ Op[1] = 15 /\ Op[3] = 3 /\ Op[4] = 3) =>
          LET v == Before.v_registers[Op[2]]
              i == Before.i_register
              after == memory'.memory
          IN  /\ after[i] = v \div 100
              /\ after[i + 1] = (v % 100) \div 10
              /\ after[i + 2] = v % 10
              /\ \A k \in 0 .. 2 : after[i + k] \in 0 .. 9
              /\ 100 * after[i] + 10 * after[i + 1] + after[i + 2] = v
              /\ after = [a \in 0 .. 4095 |->
                            IF a \in i .. (i + 2) THEN after[a] ELSE memory.memory[a]]
              /\ memory'.display = memory.display
              /\ cpu'.i_register = i
              /\ cpu'.v_registers = Before.v_registers
              /\ \A w \in 0 .. 255 :
                    LET stored == op_fx33(SetV(Before, Op[2], w), memory, Op[2]).memory.memory
                    IN  << stored[i], stored[i + 1], stored[i + 2] >> =
                           << w \div 100, (w % 100) \div 10, w % 10 >> ]_vars

\* FF33 has run on VF = 255 with I = 0x300: the bytes there are 2, 5, 5
C24_Witness ==
    /\ rom_file = File(RomBcd(15, 255))
    /\ last = [op |-> "do_cycle", result |-> "Ok"]
    /\ cpu.opcode = 65331
    /\ cpu.i_register = 768
    /\ memory.memory[768] = 2 /\ memory.memory[769] = 5 /\ memory.memory[770] = 5
    /\ memory.memory[771] = 0

\* ------------------------------------------------------------------------
\* C25: Fx55 writes V0..Vx (x + 1 bytes) to memory[I..I + x] and changes no
\* other memory byte; Fx65 reads memory[I..I + x] into V0..Vx and changes
\* no register above x; neither changes I; an Fx65 with the same x and I
\* run after the Fx55, whatever the registers hold by then, gives V0..Vx the
\* values they had before the Fx55.
\* ------------------------------------------------------------------------
C25_BlockStoreLoad ==
    [][ /\ (Executed /\ Op[1] = 15 /\ Op[3] = 5 /\ Op[4] = 5) =>
              LET x == Op[2]
                  i == Before.i_register
                  zeroed == [cpu' EXCEPT !.v_registers = [r \in 0 .. 15 |-> 0]]
                  back == op_fx65(zeroed, memory', x)
              IN  /\ memory'.memory =
                        [a \in 0 .. 4095 |->
                            IF a \in i .. (i + x) THEN Before.v_registers[a - i]
                            ELSE memory.memory[a]]
                  /\ cpu'.v_registers = Before.v_registers
                  /\ cpu'.i_register = i
                  /\ back.panic = "none"
                  /\ \A k \in 0 .. x : back.cpu.v_registers[k] = Before.v_registers[k]
                  /\ \A k \in (x + 1) .. 15 : back.cpu.v_registers[k] = 0
        /\ (Executed /\ Op[1] = 15 /\ Op[3] = 6 /\ Op[4] = 5) =>
              LET x == Op[2]
                  i == Before.i_register
              IN  /\ \A k \in 0 .. x : cpu'.v_registers[k] = memory.memory[i + k]
                  /\ \A k \in (x + 1) .. 15 :
                        cpu'.v_registers[k] = Before.v_registers[k]
                  /\ cpu'.i_register = i
                  /\ memory' = memory ]_vars

\* F155 stored V0 = 17 and V1 = 34 at 0x300, V0, V1, V2, VF were zeroed and
\* F165 has run: V0 and V1 are back, V2 and VF are still 0 and 0x302 was
\* never written
C25_Witness ==
    /\ rom_file = File(RomBlock(1))
    /\ last = [op |-> "do_cycle", result |-> "Ok"]
    /\ cpu.opcode = 61797
    /\ cycles = 11
    /\ cpu.i_register = 768
    /\ cpu.v_registers[0] = 17 /\ cpu.v_registers[1] = 34
    /\ cpu.v_registers[2] = 0 /\ cpu.v_registers[15] = 0
    /\ memory.memory[768] = 17 /\ memory.memory[769] = 34 /\ memory.memory[770] = 0

\* ------------------------------------------------------------------------
\* C30: a step that is not the execution of a 2nnn or a 00EE (any other
\* instruction, an aborted one, update_timers, a keyboard read, the load)
\* leaves the stack pointer and all 16 slots as they are; a 2nnn changes
\* only the slot the stack pointer named and adds 1 to the pointer; a 00EE
\* changes no slot and takes 1 from the pointer.
\* ------------------------------------------------------------------------
C30_StackFrame ==
    [][ LET before == cpu.stack
            after  == cpu'.stack
            call   == Executed /\ Op[1] = 2
            return == Executed /\ cpu'.opcode = 238
        IN  /\ call =>
                  /\ after.stack_pointer = before.stack_pointer + 1
                  /\ \A s \in 0 .. 15 :
                        s # before.stack_pointer => after.stack[s] = before.stack[s]
            /\ return =>
                  /\ after.stack_pointer = before.stack_pointer - 1
                  /\ after.stack = before.stack
            /\ ~(call \/ return) => after = before ]_vars

\* two calls deep, the eleven instructions from 0x208 on have run and the
\* first return has been executed: one call is pending and both return
\* addresses are still in their slots
C30_Witness ==
    /\ rom_file = File(RomFrame)
    /\ last = [op |-> "do_cycle", result |-> "Ok"]
    /\ cycles = 14
    /\ cpu.opcode = 238
    /\ cpu.pc = 518
    /\ cpu.stack.stack_pointer = 1
    /\ cpu.stack.stack[0] = 514 /\ cpu.stack.stack[1] = 518
    /\ cpu.i_register = 774

\* ------------------------------------------------------------------------
\* C28: as constructed, and until the first cycle, the Cpu has program
\* counter 0x200, stack pointer 0 with all 16 slots 0, all V registers, I,
\* DT and ST 0, the latch clear and beeping false; the new memory holds the
\* font at 0..79 and 0 elsewhere and its display is all 0; a load that
\* succeeds puts the first byte of the image where the program counter
\* points.
\* ------------------------------------------------------------------------
C28_InitialState ==
    [][ (driver = "start") =>
          /\ cpu.pc = 512
          /\ cpu.stack.stack_pointer = 0
          /\ cpu.stack.stack = [s \in 0 .. 15 |-> 0]
          /\ cpu.v_registers = [r \in 0 .. 15 |-> 0]
          /\ cpu.i_register = 0
          /\ cpu.delay_timer_register = 0
          /\ cpu.sound_timer_register = 0
          /\ ~cpu.waiting_for_input
          /\ ~cpu.beeping
          /\ memory.memory = [a \in 0 .. 4095 |-> IF a < 80 THEN SPRITES[a + 1] ELSE 0]
          /\ << memory.memory[0], memory.memory[4], memory.memory[75], memory.memory[79] >>
                = << 240, 240, 240, 128 >>
          /\ memory.display = [cell \in 0 .. 2047 |-> 0]
          /\ cpu' = cpu
          /\ (last'.result = "Ok" /\ Len(rom_file.bytes) >= 1) =>
                memory'.memory[cpu'.pc] = rom_file.bytes[1] ]_vars

\* the nested-call image has been loaded into the new memory: its first
\* byte is at 0x200, where the untouched Cpu will fetch
C28_Witness ==
    /\ rom_file = File(RomNested)
    /\ driver = "loop"
    /\ last = [op |-> "load", result |-> "Ok"]
    /\ cycles = 0
    /\ cpu.pc = 512
    /\ cpu.stack.stack_pointer = 0
    /\ memory.memory[512] = 34
    /\ memory.memory[79] = 128 /\ memory.memory[80] = 0

\* ------------------------------------------------------------------------
\* C29: 8xy7 as the repository's test asserts it: with a = Vx and b = Vy
\* before the instruction, afterwards Vx = (b - a) mod 256 and VF = 1
\* exactly when a > b (4, 5 gives Vx = 1, VF = 0; 4, 3 gives Vx = 255,
\* VF = 1), for the registers x # 0xF in which Vx and VF can both be read.
\* ------------------------------------------------------------------------
C29_Subn8xy7AsTested ==
    [][ (Executed /\ Op[1] = 8 /\ Op[4] = 7 /\ Op[2] # 15) =>
          LET a == Before.v_registers[Op[2]]
              b == Before.v_registers[Op[3]]
          IN  /\ cpu'.v_registers[Op[2]] = (b - a) % 256
              /\ (cpu'.v_registers[15] = 1) <=> (a > b)
              /\ cpu'.v_registers[15] \in {0, 1} ]_vars

\* ------------------------------------------------------------------------
\* C26: Fx1E never aborts, also when I + Vx exceeds 65535 after repeated
\* additions; after it I is (I + Vx) mod 65536 for the I and Vx held
\* before, and no V register, VF included, has changed.
\* ------------------------------------------------------------------------
C26_AddToIndexWraps ==
    [][ (Decoded /\ Op[1] = 15 /\ Op[3] = 1 /\ Op[4] = 14) =>
          /\ driver' = "loop"
          /\ cpu'.i_register = (Before.i_register + Before.v_registers[Op[2]]) % 65536
          /\ cpu'.v_registers = Before.v_registers ]_vars

\* ------------------------------------------------------------------------
\* C31: a do_cycle call changes DT only when the instruction it executed is
\* Fx15, which sets DT to Vx, and ST only when it is Fx18, which sets ST to
\* Vx; every other instruction leaves both timers as they were; Fx07 copies
\* DT into Vx without changing DT, so that Fx07 run right after Fx15, with
\* no tick in between, reads back the value Fx15 stored.
\* ------------------------------------------------------------------------
C31_TimersDecoupled ==
    [][ (last'.op = "do_cycle") =>
          LET fx15 == Executed /\ Op[1] = 15 /\ Op[3] = 1 /\ Op[4] = 5
              fx18 == Executed /\ Op[1] = 15 /\ Op[3] = 1 /\ Op[4] = 8
              fx07 == Executed /\ Op[1] = 15 /\ Op[3] = 0 /\ Op[4] = 7
          IN  /\ ~fx15 => cpu'.delay_timer_register = cpu.delay_timer_register
              /\ ~fx18 => cpu'.sound_timer_register = cpu.sound_timer_register
              /\ fx15 => /\ cpu'.delay_timer_register = Before.v_registers[Op[2]]
                         /\ \A y \in 0 .. 15 :
                               LET r == op_fx07(cpu', memory', y)
                               IN  /\ r.panic = "none"
                                   /\ r.cpu.v_registers[y] = Before.v_registers[Op[2]]
                                   /\ r.cpu.delay_timer_register =
                                         Before.v_registers[Op[2]]
              /\ fx18 => cpu'.sound_timer_register = Before.v_registers[Op[2]]
              /\ fx07 => /\ cpu'.v_registers[Op[2]] = cpu.delay_timer_register
                         /\ \A r \in 0 .. 15 :
                               r # Op[2] => cpu'.v_registers[r] = Before.v_registers[r]
                         /\ cpu'.pc = Before.pc + 2 ]_vars

\* F107 at 0x206 has just read the 3 that F015 stored two instructions
\* earlier, no tick having come in between: V1 = 3 and DT and ST are still 3
C31_Witness ==
    /\ rom_file = File(RomDelay(0, 1, 3))
    /\ last = [op |-> "do_cycle", result |-> "Ok"]
    /\ cycles = 4
    /\ cpu.opcode = 61703
    /\ cpu.v_registers[1] = 3
    /\ cpu.delay_timer_register = 3
    /\ cpu.sound_timer_register = 3

\* ------------------------------------------------------------------------
\* C32: once Fx0A has set the latch the Cpu keeps waiting, with the same
\* target register, through every update_timers call, every keyboard refresh
\* and every do_cycle call that finds no key down: only a do_cycle call that
\* finds a key down ends the wait.  And the wait does end: a do_cycle call
\* that finds a key down clears the latch and fetches the next instruction,
\* and when do_cycle keeps being called the Cpu never stays waiting for ever
\* with a key held down.
\* ------------------------------------------------------------------------
C32_KeyWaitExit ==
    /\ [][ cpu.waiting_for_input =>
             /\ (last'.op = "do_cycle" /\ any(keyboard)) \/
                   (/\ cpu'.waiting_for_input
                    /\ cpu'.input_register = cpu.input_register
                    /\ cycles' = cycles)
             /\ (last'.op = "do_cycle" /\ any(keyboard)) =>
                   (cycles' = cycles + 1 /\ ~Before.waiting_for_input) ]_vars
    /\ []<>(~(cpu.waiting_for_input /\ any(keyboard) /\ driver = "loop"))

\* the wait into V1 has ended with key 0 down and the program went on: 612A
\* and 7101 behind the wait have run, V1 = 43
C32_Witness ==
    /\ rom_file = File(RomWake(97, 42))
    /\ last = [op |-> "do_cycle", result |-> "Ok"]
    /\ cycles = 6
    /\ cpu.opcode = 28929
    /\ ~cpu.waiting_for_input
    /\ keyboard[0] = 1
    /\ cpu.v_registers[1] = 43

\* ------------------------------------------------------------------------
\* C33 as stated: the do_cycle call that ends the key wait also fetches and
\* executes the instruction at the program counter, and the program counter
\* has changed when that call returns.
\* ------------------------------------------------------------------------
C33_WakeCycleMovesPc ==
    [][ (last'.op = "do_cycle" /\ cpu.waiting_for_input /\ any(keyboard)
           /\ driver' = "loop") =>
          /\ cycles' = cycles + 1
          /\ cpu'.opcode = memory.memory[cpu.pc] * 256 + memory.memory[cpu.pc + 1]
          /\ cpu'.pc # cpu.pc ]_vars

\* ------------------------------------------------------------------------
\* C33: the do_cycle call that ends the key wait first writes the key index
\* and then, within the same call, fetches and executes exactly one
\* instruction at the program counter: the call leaves what a call on the
\* woken Cpu leaves.  The program counter is set as that instruction
\* directs: it moves on by 2 or by 4 unless the instruction is a jump, a
\* call or a return, and only those can leave it where it was.  6xkk on the
\* target register replaces the key index, and Fx0A sets the latch again.
\* ------------------------------------------------------------------------
C33_WakeCycleExecutes ==
    [][ (last'.op = "do_cycle" /\ cpu.waiting_for_input /\ any(keyboard)) =>
          /\ cycles' = cycles + 1
          /\ Before.v_registers[cpu.input_register] = LowestKey(keyboard)
          /\ \E d \in Draws(cpu, memory) :
                LET r == do_cycle(Before, memory, keyboard, d[1], d[2])
                IN  cpu' = r.cpu /\ memory' = r.memory
          /\ Executed =>
                /\ cpu'.opcode = memory.memory[cpu.pc] * 256 + memory.memory[cpu.pc + 1]
                /\ (Op[1] \notin {1, 2, 11} /\ cpu'.opcode # 238) =>
                      cpu'.pc \in { cpu.pc + 2, cpu.pc + 4 }
                /\ Op[1] = 1 => cpu'.pc = cpu'.opcode % 4096
                /\ (Op[1] = 6 /\ Op[2] = cpu.input_register) =>
                      cpu'.v_registers[cpu.input_register] = cpu'.opcode % 256
                /\ (Op[1] = 15 /\ Op[3] = 0 /\ Op[4] = 10) =>
                      /\ cpu'.waiting_for_input
                      /\ cpu'.input_register = Op[2]
                      /\ cpu'.v_registers[cpu.input_register] = LowestKey(keyboard)
                /\ ~(Op[1] = 15 /\ Op[3] = 0 /\ Op[4] = 10) =>
                      ~cpu'.waiting_for_input ]_vars

\* the call that ended the wait into V1 with key 0 down ran the F30A behind
\* it: V1 holds the key, the Cpu waits again, now into V3, and the program
\* counter is behind the second wait
C33_Witness ==
    /\ rom_file = File(RomWake(243, 10))
    /\ last = [op |-> "do_cycle", result |-> "Ok"]
    /\ cycles = 5
    /\ cpu.opcode = 62218
    /\ cpu.pc = 522
    /\ cpu.waiting_for_input
    /\ cpu.input_register = 3
    /\ cpu.v_registers[1] = 0
    /\ keyboard[0] = 1

\* ------------------------------------------------------------------------
\* C34: Dxyn with VF as a coordinate operand (x = 0xF or y = 0xF): the
\* sprite is plotted from the origin (Vx, Vy) held before the instruction,
\* for every row and bit: cell ((Vx + b) mod 64, (Vy + r) mod 32) becomes its
\* old value XOR bit (7 - b) of memory[I + r] and no other cell changes;
\* clearing VF at the start and setting it on a collision move nothing.
\* ------------------------------------------------------------------------
C34_DrawOriginWithFlagOperand ==
    [][ (Executed /\ Op[1] = 13 /\ (Op[2] = 15 \/ Op[3] = 15)) =>
          LET vx   == Before.v_registers[Op[2]]
              vy   == Before.v_registers[Op[3]]
              i    == Before.i_register
              bits == (0 .. (Op[4] - 1)) \X (0 .. 7)
              landed == { SpriteCell(vx, vy, p[1], p[2]) : p \in bits }
          IN  /\ \A p \in bits :
                    memory'.display[SpriteCell(vx, vy, p[1], p[2])] =
                       (memory.display[SpriteCell(vx, vy, p[1], p[2])]
                          + SpriteBit(memory, i, p[1], p[2])) % 2
              /\ { cell \in 0 .. 2047 : memory'.display[cell] # memory.display[cell] }
                    \subseteq landed ]_vars

\* ------------------------------------------------------------------------
\* C35: for every value of Vx in 0..255, Ex9E and ExA1 run to their end with
\* SKIP or NEXT and never abort: the program counter moves on by 4 or by 2
\* and the index the keyboard vector is read at lies in 0..15.
\* ------------------------------------------------------------------------
C35_KeyIndexInRange ==
    [][ (Decoded /\ Op[1] = 14 /\ Op[3] * 16 + Op[4] \in {158, 161}) =>
          /\ driver' = "loop"
          /\ cpu'.pc \in { Before.pc + 2, Before.pc + 4 }
          /\ Before.v_registers[Op[2]] \in 0 .. 15 ]_vars

====
